---- MODULE Spec2Model ----
(***************************************************************************)
(* oastrix: OAST collector.  Model of the REST API (auth middleware and    *)
(* token handlers), the SQLite store with its foreign keys, the plugin     *)
(* pipeline, the DNS listener and the HTTP capture listener, the ACME TXT   *)
(* store under its goroutines, interaction attributes, API key generation, *)
(* the certificate selection of the HTTPS listener, the startup probes and *)
(* the shutdown of runServer, and the migration engine.                    *)
(*                                                                         *)
(* Strings the code parses are sequences of one-character strings; DNS     *)
(* names are records [labels, dots]: the dot-separated labels and the      *)
(* number of trailing dots.                                                *)
(***************************************************************************)
EXTENDS Integers, Sequences, FiniteSets, TLC

\* ------------------------------------------------------------------ bounds
MaxTokens == 2
MaxInteractions == 1
MaxPlugins == 2
MaxQuestions == 2

\* -------------------------------------------------------- string helpers
HasPrefix(s, p) == Len(s) >= Len(p) /\ SubSeq(s, 1, Len(p)) = p

TrimPrefix(s, p) == IF HasPrefix(s, p) THEN SubSeq(s, Len(p) + 1, Len(s)) ELSE s

\* strings.Index(s, c) for a one-character c, 1-based; 0 when absent
IndexOf(s, c) ==
    IF \E i \in 1..Len(s) : s[i] = c
    THEN CHOOSE i \in 1..Len(s) : s[i] = c /\ \A j \in 1..(i - 1) : s[j] # c
    ELSE 0

\* strings.SplitN(s, sep, 2)
SplitN2(s, sep) ==
    LET i == IndexOf(s, sep)
    IN IF i = 0 THEN <<s>> ELSE <<SubSeq(s, 1, i - 1), SubSeq(s, i + 1, Len(s))>>

\* ------------------------------------------------------------- API keys
servicePrefix == <<"o", "a", "s", "t", "r", "i", "x">>
prefixLength == 12

LowerAlnum ==
    {"a", "b", "c", "d", "e", "f", "g", "h", "i", "j", "k", "l", "m",
     "n", "o", "p", "q", "r", "s", "t", "u", "v", "w", "x", "y", "z",
     "0", "1", "2", "3", "4", "5", "6", "7", "8", "9"}

isAlphanumeric(c) == c \in LowerAlnum

ErrInvalidKeyFormat == [prefix |-> <<>>, secret |-> <<>>, err |-> TRUE]

\* ParseAPIKey without the test of the characters of the prefix
ParseAPIKey_AnyPrefix(displayKey) ==
    IF ~HasPrefix(displayKey, servicePrefix \o <<"_">>)
    THEN ErrInvalidKeyFormat
    ELSE LET rest == TrimPrefix(displayKey, servicePrefix \o <<"_">>)
             parts == SplitN2(rest, "_")
         IN IF Len(parts) # 2 THEN ErrInvalidKeyFormat
            ELSE IF Len(parts[1]) # prefixLength THEN ErrInvalidKeyFormat
            ELSE [prefix |-> parts[1], secret |-> parts[2], err |-> FALSE]

ParseAPIKey(displayKey) ==
    IF ~HasPrefix(displayKey, servicePrefix \o <<"_">>)
    THEN ErrInvalidKeyFormat
    ELSE LET rest == TrimPrefix(displayKey, servicePrefix \o <<"_">>)
             parts == SplitN2(rest, "_")
         IN IF Len(parts) # 2 THEN ErrInvalidKeyFormat
            ELSE IF Len(parts[1]) # prefixLength THEN ErrInvalidKeyFormat
            ELSE IF \E i \in 1..Len(parts[1]) : ~isAlphanumeric(parts[1][i])
                 THEN ErrInvalidKeyFormat
            ELSE [prefix |-> parts[1], secret |-> parts[2], err |-> FALSE]

\* SHA-256 of the secret: collision-free on the secrets of the model
HashSecret(secret) == <<"sha256", secret>>

VerifyAPIKey(displayKey, storedHash) ==
    LET p == ParseAPIKey(displayKey)
    IN IF p.err \/ p.prefix = <<>> THEN FALSE
       ELSE HashSecret(p.secret) = storedHash

\* The keys of the model: two live keys and a revoked one.
Prefix1 == <<"k", "e", "y", "1", "a", "a", "a", "a", "a", "a", "a", "a">>
Prefix2 == <<"k", "e", "y", "2", "a", "a", "a", "a", "a", "a", "a", "a">>
Prefix3 == <<"k", "e", "y", "3", "a", "a", "a", "a", "a", "a", "a", "a">>
Prefix9 == <<"k", "e", "y", "9", "a", "a", "a", "a", "a", "a", "a", "a">>
Secret1 == <<"S", "1">>
Secret2 == <<"S", "2">>
Secret3 == <<"S", "3">>

DisplayKey(prefix, secret) == servicePrefix \o <<"_">> \o prefix \o <<"_">> \o secret

Bearer(key) == <<"B", "e", "a", "r", "e", "r", " ">> \o key

\* Authorization headers a client may present
HdrMissing == <<>>
HdrBasic == <<"B", "a", "s", "i", "c", " ", "x">>
HdrNoService == Bearer(<<"f", "o", "o", "_">> \o Prefix1 \o <<"_">> \o Secret1)
HdrNoSeparator == Bearer(servicePrefix \o <<"_">> \o Prefix1)
HdrShortPrefix == Bearer(servicePrefix \o <<"_", "k", "1", "_">> \o Secret1)
HdrUpperPrefix ==
    Bearer(DisplayKey(<<"K", "e", "y", "1", "a", "a", "a", "a", "a", "a", "a", "a">>, Secret1))
HdrUnknownPrefix == Bearer(DisplayKey(Prefix9, Secret1))
HdrRevoked == Bearer(DisplayKey(Prefix3, Secret3))
HdrWrongSecret == Bearer(DisplayKey(Prefix1, Secret2))
HdrKey1 == Bearer(DisplayKey(Prefix1, Secret1))
HdrKey2 == Bearer(DisplayKey(Prefix2, Secret2))

BadHeaders ==
    {HdrMissing, HdrBasic, HdrNoService, HdrNoSeparator, HdrShortPrefix,
     HdrUpperPrefix, HdrUnknownPrefix, HdrRevoked, HdrWrongSecret}

\* ------------------------------------------------------------ the store
\* Token values token.Generate can mint
TokenValues == {"toka", "tokb"}

NULL == -1
Nil == [id |-> 0]

\* A handler run names the one statement of it that fails (I/O error,
\* SQLITE_BUSY after the busy timeout); "none": every statement succeeds
NoFaults == {"none"}

\* Open runs PRAGMA foreign_keys=ON once, through db.Exec on the database/sql
\* pool.  The pragma is per-connection state in SQLite: the connection that
\* served that Exec enforces foreign keys (TRUE), a connection the pool opens
\* later, while the first one is busy in another listener goroutine, keeps
\* SQLite's default (FALSE).  Each statement runs on either kind.
ConnForeignKeys == {TRUE, FALSE}

\* 001/002 migrations: empty tables
EmptyDB ==
    [api_keys |-> {}, tokens |-> {}, interactions |-> {},
     http_interactions |-> {}, dns_interactions |-> {},
     interaction_attributes |-> {}, token_plugin_config |-> {},
     seq_tokens |-> 0, seq_interactions |-> 0]

CreateAPIKey(d, id, prefix, hash, revoked) ==
    [d EXCEPT !.api_keys = @ \cup
        {[id |-> id, key_prefix |-> prefix, key_hash |-> hash, revoked_at |-> revoked]}]

GetAPIKeyByPrefix(d, prefix, failed) ==
    IF failed THEN [key |-> Nil, err |-> TRUE]
    ELSE IF \E k \in d.api_keys : k.key_prefix = prefix
         THEN [key |-> CHOOSE k \in d.api_keys : k.key_prefix = prefix, err |-> FALSE]
         ELSE [key |-> Nil, err |-> FALSE]

\* INSERT INTO tokens; token is UNIQUE, api_key_id REFERENCES api_keys(id)
CreateToken(d, token, apiKeyID, fk, failed) ==
    IF failed \/ (\E t \in d.tokens : t.token = token)
              \/ (fk /\ apiKeyID # NULL /\ ~\E k \in d.api_keys : k.id = apiKeyID)
    THEN [db |-> d, id |-> 0, err |-> TRUE]
    ELSE [db |-> [d EXCEPT !.tokens = @ \cup
                     {[id |-> d.seq_tokens + 1, token |-> token, api_key_id |-> apiKeyID]},
                   !.seq_tokens = @ + 1],
          id |-> d.seq_tokens + 1, err |-> FALSE]

GetTokenByValue(d, token, failed) ==
    IF failed THEN [tok |-> Nil, err |-> TRUE]
    ELSE IF \E t \in d.tokens : t.token = token
         THEN [tok |-> CHOOSE t \in d.tokens : t.token = token, err |-> FALSE]
         ELSE [tok |-> Nil, err |-> FALSE]

\* ON DELETE CASCADE of the schema, applied by a connection that enforces
\* foreign keys
CascadeDeleteTokens(d, ids) ==
    LET gone == {i.id : i \in {x \in d.interactions : x.token_id \in ids}}
    IN [d EXCEPT
          !.tokens = {t \in @ : t.id \notin ids},
          !.interactions = {i \in @ : i.token_id \notin ids},
          !.http_interactions = {h \in @ : h.interaction_id \notin gone},
          !.dns_interactions = {x \in @ : x.interaction_id \notin gone},
          !.interaction_attributes = {a \in @ : a.interaction_id \notin gone},
          !.token_plugin_config = {c \in @ : c.token_id \notin ids}]

\* DELETE FROM tokens WHERE token = ?
DeleteToken(d, token, fk, failed) ==
    LET ids == {t.id : t \in {x \in d.tokens : x.token = token}}
    IN IF failed THEN [db |-> d, err |-> TRUE]
       ELSE IF fk THEN [db |-> CascadeDeleteTokens(d, ids), err |-> FALSE]
       ELSE [db |-> [d EXCEPT !.tokens = {t \in @ : t.id \notin ids}], err |-> FALSE]

\* DELETE FROM api_keys WHERE id = ? with a cascading owner reference
DeleteAPIKey_Cascade(d, id, fk, failed) ==
    LET ids == {t.id : t \in {x \in d.tokens : x.api_key_id = id}}
    IN IF failed THEN [db |-> d, err |-> TRUE]
       ELSE IF fk
       THEN [db |-> [CascadeDeleteTokens(d, ids) EXCEPT !.api_keys = {k \in @ : k.id # id}],
             err |-> FALSE]
       ELSE [db |-> [d EXCEPT !.api_keys = {k \in @ : k.id # id}], err |-> FALSE]

\* DELETE FROM api_keys WHERE id = ?, the statement an operator runs on the
\* database file (the server has no key-removal command).  tokens.api_key_id
\* REFERENCES api_keys(id) without an ON DELETE clause, which is NO ACTION:
\* a connection that enforces foreign keys fails the statement while a
\* tokens row names the key; one that does not removes the api_keys row only
DeleteAPIKey(d, id, fk, failed) ==
    IF failed \/ (fk /\ \E t \in d.tokens : t.api_key_id = id)
    THEN [db |-> d, err |-> TRUE]
    ELSE [db |-> [d EXCEPT !.api_keys = {k \in @ : k.id # id}], err |-> FALSE]

\* INSERT INTO interactions; token_id REFERENCES tokens(id)
CreateInteraction(d, tokenID, kind, fk, failed) ==
    IF failed \/ (fk /\ ~\E t \in d.tokens : t.id = tokenID)
    THEN [db |-> d, id |-> 0, err |-> TRUE]
    ELSE [db |-> [d EXCEPT !.interactions = @ \cup
                     {[id |-> d.seq_interactions + 1, token_id |-> tokenID, kind |-> kind]},
                   !.seq_interactions = @ + 1],
          id |-> d.seq_interactions + 1, err |-> FALSE]

\* INSERT INTO http_interactions; interaction_id is the primary key and
\* REFERENCES interactions(id)
CreateHTTPInteraction(d, interactionID, fk, failed) ==
    IF failed \/ (\E h \in d.http_interactions : h.interaction_id = interactionID)
              \/ (fk /\ ~\E i \in d.interactions : i.id = interactionID)
    THEN [db |-> d, err |-> TRUE]
    ELSE [db |-> [d EXCEPT !.http_interactions = @ \cup {[interaction_id |-> interactionID]}],
          err |-> FALSE]

CreateDNSInteraction(d, interactionID, fk, failed) ==
    IF failed \/ (\E x \in d.dns_interactions : x.interaction_id = interactionID)
              \/ (fk /\ ~\E i \in d.interactions : i.id = interactionID)
    THEN [db |-> d, err |-> TRUE]
    ELSE [db |-> [d EXCEPT !.dns_interactions = @ \cup {[interaction_id |-> interactionID]}],
          err |-> FALSE]

GetInteractionsByToken(d, tokenID, failed) ==
    IF failed THEN [rows |-> {}, err |-> TRUE]
    ELSE [rows |-> {i \in d.interactions : i.token_id = tokenID}, err |-> FALSE]

\* Attribute values: what a plugin may put into map[string]any
GoString(x) == [t |-> "string", v |-> x]
GoInt(n) == [t |-> "int", v |-> n]
GoFloat64(n) == [t |-> "float64", v |-> n]
GoBytes(x) == [t |-> "[]byte", v |-> x]
GoNaN == [t |-> "NaN", v |-> 0]

NoAttributes == [k \in {} |-> GoString("")]

\* base64.StdEncoding of the byte strings in use
Base64(x) ==
    CASE x = "ab" -> "YWI="
      [] OTHER -> "="

\* json.Marshal of a value: the JSON text as its kind and content.  An int
\* and a float64 of the same value give the same number; a []byte is
\* written as a base64 string; NaN is an UnsupportedValueError.
Marshal(val) ==
    CASE val.t = "string" -> [json |-> [j |-> "string", v |-> val.v], err |-> FALSE]
      [] val.t = "int" -> [json |-> [j |-> "number", v |-> val.v], err |-> FALSE]
      [] val.t = "float64" -> [json |-> [j |-> "number", v |-> val.v], err |-> FALSE]
      [] val.t = "NaN" -> [json |-> [j |-> "null", v |-> 0], err |-> TRUE]
      [] val.t = "[]byte" -> [json |-> [j |-> "string", v |-> Base64(val.v)], err |-> FALSE]

\* json.Unmarshal into an any: a string, or a float64 for every number
Unmarshal(json) ==
    IF json.j = "string" THEN GoString(json.v) ELSE GoFloat64(json.v)

\* One transaction of upserts, a row per key with the value JSON-encoded;
\* ON CONFLICT (interaction_id, key) a row keeps its key and its value only
SaveAttributes_KeepOnConflict(d, interactionID, attrs, fk, failed) ==
    IF DOMAIN attrs = {} THEN [db |-> d, err |-> FALSE]
    ELSE IF \/ failed
            \/ \E k \in DOMAIN attrs : Marshal(attrs[k]).err
            \/ (fk /\ ~\E i \in d.interactions : i.id = interactionID)
    THEN [db |-> d, err |-> TRUE]
    ELSE [db |-> [d EXCEPT !.interaction_attributes = @ \cup
                     {[interaction_id |-> interactionID, key |-> k,
                       value |-> Marshal(attrs[k]).json] :
                          k \in {x \in DOMAIN attrs :
                                   ~\E a \in d.interaction_attributes :
                                       a.interaction_id = interactionID /\ a.key = x}}],
          err |-> FALSE]

\* One transaction of upserts, a row per key with the value JSON-encoded;
\* ON CONFLICT (interaction_id, key) the value is replaced.  An encoding or
\* statement error rolls the transaction back.  interaction_id REFERENCES
\* interactions(id).
SaveAttributes(d, interactionID, attrs, fk, failed) ==
    IF DOMAIN attrs = {} THEN [db |-> d, err |-> FALSE]
    ELSE IF \/ failed
            \/ \E k \in DOMAIN attrs : Marshal(attrs[k]).err
            \/ (fk /\ ~\E i \in d.interactions : i.id = interactionID)
    THEN [db |-> d, err |-> TRUE]
    ELSE [db |-> [d EXCEPT !.interaction_attributes =
                     {a \in @ : ~(a.interaction_id = interactionID /\ a.key \in DOMAIN attrs)}
                     \cup {[interaction_id |-> interactionID, key |-> k,
                            value |-> Marshal(attrs[k]).json] : k \in DOMAIN attrs}],
          err |-> FALSE]

\* SELECT key, value FROM interaction_attributes WHERE interaction_id = ?,
\* every value decoded
GetAttributes(d, interactionID, failed) ==
    IF failed THEN [attrs |-> NoAttributes, err |-> TRUE]
    ELSE LET rows == {a \in d.interaction_attributes : a.interaction_id = interactionID}
         IN [attrs |-> [k \in {a.key : a \in rows} |->
                          Unmarshal((CHOOSE a \in rows : a.key = k).value)],
             err |-> FALSE]

\* Upsert of token_plugin_config; token_id REFERENCES tokens(id)
SetTokenPluginConfig(d, tokenID, pluginID, fk, failed) ==
    IF failed \/ (fk /\ ~\E t \in d.tokens : t.id = tokenID)
    THEN [db |-> d, err |-> TRUE]
    ELSE [db |-> [d EXCEPT !.token_plugin_config = @ \cup
                     {[token_id |-> tokenID, plugin_id |-> pluginID]}],
          err |-> FALSE]

\* ------------------------------------------------------------ REST API
VARIABLES
    db,     \* the SQLite database
    api     \* the last REST request and the response written for it

\* writeJSON(w, status, {"error": msg})
ErrorResponse(status, msg) ==
    [status |-> status, error |-> msg, token |-> "", interactions |-> {},
     tokens |-> {}, deleted |-> FALSE]

Unauthorized == ErrorResponse(401, "unauthorized")

OKResponse == ErrorResponse(200, "")

\* AuthMiddleware without the revoked_at test
AuthMiddleware_RevokedPasses(d, authHeader, fail) ==
    IF authHeader = <<>> THEN [ok |-> FALSE, apiKeyID |-> 0]
    ELSE IF ~HasPrefix(authHeader, <<"B", "e", "a", "r", "e", "r", " ">>)
    THEN [ok |-> FALSE, apiKeyID |-> 0]
    ELSE LET apiKey == TrimPrefix(authHeader, <<"B", "e", "a", "r", "e", "r", " ">>)
             parsed == ParseAPIKey(apiKey)
             stored == GetAPIKeyByPrefix(d, parsed.prefix, fail = "get_api_key")
         IN IF parsed.err THEN [ok |-> FALSE, apiKeyID |-> 0]
            ELSE IF stored.err \/ stored.key.id = 0 THEN [ok |-> FALSE, apiKeyID |-> 0]
            ELSE IF ~VerifyAPIKey(apiKey, stored.key.key_hash) THEN [ok |-> FALSE, apiKeyID |-> 0]
            ELSE [ok |-> TRUE, apiKeyID |-> stored.key.id]

\* AuthMiddleware: the verified key id, or the 401 it answers with
AuthMiddleware(d, authHeader, fail) ==
    IF authHeader = <<>> THEN [ok |-> FALSE, apiKeyID |-> 0]
    ELSE IF ~HasPrefix(authHeader, <<"B", "e", "a", "r", "e", "r", " ">>)
    THEN [ok |-> FALSE, apiKeyID |-> 0]
    ELSE LET apiKey == TrimPrefix(authHeader, <<"B", "e", "a", "r", "e", "r", " ">>)
             parsed == ParseAPIKey(apiKey)
             stored == GetAPIKeyByPrefix(d, parsed.prefix, fail = "get_api_key")
         IN IF parsed.err THEN [ok |-> FALSE, apiKeyID |-> 0]
            ELSE IF stored.err \/ stored.key.id = 0 THEN [ok |-> FALSE, apiKeyID |-> 0]
            ELSE IF stored.key.revoked_at THEN [ok |-> FALSE, apiKeyID |-> 0]
            ELSE IF ~VerifyAPIKey(apiKey, stored.key.key_hash) THEN [ok |-> FALSE, apiKeyID |-> 0]
            ELSE [ok |-> TRUE, apiKeyID |-> stored.key.id]

\* Request bodies of POST /v1/tokens
Bodies == {"valid", "unknown_field", "too_large", "trailing"}

\* handleCreateToken minting again when the INSERT hits the UNIQUE index
handleCreateToken_MintAgain(d, apiKeyID, body, tok, fk, fail) ==
    IF body = "too_large" THEN [db |-> d, resp |-> ErrorResponse(413, "request body too large")]
    ELSE IF body = "unknown_field" THEN [db |-> d, resp |-> ErrorResponse(400, "invalid JSON")]
    ELSE IF body = "trailing" THEN [db |-> d, resp |-> ErrorResponse(400, "unexpected trailing data")]
    ELSE LET free == {v \in TokenValues : ~\E t \in d.tokens : t.token = v}
             fresh == IF (\E t \in d.tokens : t.token = tok) /\ free # {}
                      THEN CHOOSE v \in free : TRUE ELSE tok
             r == CreateToken(d, fresh, apiKeyID, fk, fail = "create_token")
         IN IF r.err THEN [db |-> d, resp |-> ErrorResponse(500, "failed to create token")]
            ELSE [db |-> r.db, resp |-> [OKResponse EXCEPT !.token = fresh]]

\* handleCreateToken; tok is the value token.Generate minted
handleCreateToken(d, apiKeyID, body, tok, fk, fail) ==
    IF body = "too_large" THEN [db |-> d, resp |-> ErrorResponse(413, "request body too large")]
    ELSE IF body = "unknown_field" THEN [db |-> d, resp |-> ErrorResponse(400, "invalid JSON")]
    ELSE IF body = "trailing" THEN [db |-> d, resp |-> ErrorResponse(400, "unexpected trailing data")]
    ELSE LET r == CreateToken(d, tok, apiKeyID, fk, fail = "create_token")
         IN IF r.err THEN [db |-> d, resp |-> ErrorResponse(500, "failed to create token")]
            ELSE [db |-> r.db, resp |-> [OKResponse EXCEPT !.token = tok]]

\* ListTokensByAPIKey + handleListTokens
handleListTokens(d, apiKeyID, fail) ==
    IF fail = "get_token" THEN [db |-> d, resp |-> ErrorResponse(500, "database error")]
    ELSE [db |-> d,
          resp |-> [OKResponse EXCEPT
                      !.tokens = {t.token : t \in {x \in d.tokens : x.api_key_id = apiKeyID}}]]

handleGetInteractions(d, apiKeyID, tokenValue, fail) ==
    IF tokenValue = "" THEN [db |-> d, resp |-> ErrorResponse(400, "token required")]
    ELSE LET r == GetTokenByValue(d, tokenValue, fail = "get_token")
         IN IF r.err THEN [db |-> d, resp |-> ErrorResponse(500, "database error")]
            ELSE IF r.tok.id = 0 THEN [db |-> d, resp |-> ErrorResponse(404, "token not found")]
            ELSE IF r.tok.api_key_id = NULL \/ r.tok.api_key_id # apiKeyID
            THEN [db |-> d, resp |-> ErrorResponse(404, "token not found")]
            ELSE LET i == GetInteractionsByToken(d, r.tok.id, fail = "get_interactions")
                 IN IF i.err THEN [db |-> d, resp |-> ErrorResponse(500, "database error")]
                    ELSE [db |-> d,
                          resp |-> [OKResponse EXCEPT
                                      !.token = tokenValue,
                                      !.interactions = {x.id : x \in i.rows}]]

\* handleDeleteToken without the ownership comparison
handleDeleteToken_AnyOwner(d, apiKeyID, tokenValue, fk, fail) ==
    IF tokenValue = "" THEN [db |-> d, resp |-> ErrorResponse(400, "token required")]
    ELSE LET r == GetTokenByValue(d, tokenValue, fail = "get_token")
         IN IF r.err THEN [db |-> d, resp |-> ErrorResponse(500, "database error")]
            ELSE IF r.tok.id = 0 THEN [db |-> d, resp |-> ErrorResponse(404, "token not found")]
            ELSE LET x == DeleteToken(d, tokenValue, fk, fail = "delete_token")
                 IN IF x.err THEN [db |-> d, resp |-> ErrorResponse(500, "failed to delete token")]
                    ELSE [db |-> x.db, resp |-> [OKResponse EXCEPT !.deleted = TRUE]]

handleDeleteToken(d, apiKeyID, tokenValue, fk, fail) ==
    IF tokenValue = "" THEN [db |-> d, resp |-> ErrorResponse(400, "token required")]
    ELSE LET r == GetTokenByValue(d, tokenValue, fail = "get_token")
         IN IF r.err THEN [db |-> d, resp |-> ErrorResponse(500, "database error")]
            ELSE IF r.tok.id = 0 THEN [db |-> d, resp |-> ErrorResponse(404, "token not found")]
            ELSE IF r.tok.api_key_id = NULL \/ r.tok.api_key_id # apiKeyID
            THEN [db |-> d, resp |-> ErrorResponse(404, "token not found")]
            ELSE LET x == DeleteToken(d, tokenValue, fk, fail = "delete_token")
                 IN IF x.err THEN [db |-> d, resp |-> ErrorResponse(500, "failed to delete token")]
                    ELSE [db |-> x.db, resp |-> [OKResponse EXCEPT !.deleted = TRUE]]

Routes == {"POST /v1/tokens", "GET /v1/tokens", "GET /v1/tokens/{token}/interactions",
           "DELETE /v1/tokens/{token}"}

\* Path values of {token}: the mux never matches an empty one
PathTokens == TokenValues \cup {"nosuch"}

\* The mux of Handler(): the route handler of an authenticated request
Mux(d, route, apiKeyID, tokenValue, body, tok, fk, fail) ==
    CASE route = "POST /v1/tokens" -> handleCreateToken(d, apiKeyID, body, tok, fk, fail)
      [] route = "GET /v1/tokens" -> handleListTokens(d, apiKeyID, fail)
      [] route = "GET /v1/tokens/{token}/interactions" ->
            handleGetInteractions(d, apiKeyID, tokenValue, fail)
      [] route = "DELETE /v1/tokens/{token}" ->
            handleDeleteToken(d, apiKeyID, tokenValue, fk, fail)

NoRequest ==
    [n |-> 0, route |-> "", header |-> <<>>, token |-> "", apiKeyID |-> 0,
     next |-> FALSE, resp |-> ErrorResponse(0, "")]

\* api_keys of a running server: two live keys and a revoked one
BootDB ==
    CreateAPIKey(CreateAPIKey(CreateAPIKey(EmptyDB,
        1, Prefix1, HashSecret(Secret1), FALSE),
        2, Prefix2, HashSecret(Secret2), FALSE),
        3, Prefix3, HashSecret(Secret3), TRUE)

\* The api_key_id of the token row a path value names, 0 when there is none
OwnerOf(d, tokenValue) ==
    IF \E t \in d.tokens : t.token = tokenValue
    THEN (CHOOSE t \in d.tokens : t.token = tokenValue).api_key_id
    ELSE 0

\* Statements of the REST handlers that may fail
APIFaults ==
    {"none", "get_api_key", "get_token", "create_token", "delete_token", "get_interactions"}

\* One REST request served by Handler(): a route of Rts, an Authorization
\* header of Hdrs, a failing statement of F.  AuthMiddleware answers the
\* request itself or hands it to the mux.
APIRequest(Rts, Hdrs, F) ==
    \E route \in Rts, authHeader \in Hdrs, fail \in F :
    \E a \in {AuthMiddleware(db, authHeader, fail)} :
    \E tokenValue \in IF route \in {"POST /v1/tokens", "GET /v1/tokens"}
                      THEN {""} ELSE PathTokens,
       body \in IF a.ok /\ route = "POST /v1/tokens" THEN Bodies ELSE {"valid"},
       tok \in IF a.ok /\ route = "POST /v1/tokens" THEN TokenValues ELSE {"toka"},
       fk \in IF a.ok /\ route \in {"POST /v1/tokens", "DELETE /v1/tokens/{token}"}
              THEN ConnForeignKeys ELSE {TRUE} :
        LET request == [n |-> 1 - api.n, route |-> route, header |-> authHeader,
                        token |-> tokenValue, apiKeyID |-> a.apiKeyID, next |-> a.ok,
                        resp |-> Unauthorized]
        IN /\ route = "POST /v1/tokens" => db.seq_tokens < MaxTokens
           /\ IF ~a.ok
              THEN db' = db /\ api' = request
              ELSE \E h \in {Mux(db, route, a.apiKeyID, tokenValue, body, tok, fk, fail)} :
                      db' = h.db /\ api' = [request EXCEPT !.resp = h.resp]

\* ------------------------------------------------------------- pipeline
VARIABLES
    pipeline,   \* the Pipeline struct: store and the hook lists
    run         \* the ProcessHTTP / ProcessDNS call in progress, or the last one

AllCaps == {"prestore", "poststore", "httpresponse", "dnsresponse"}

\* storage.Plugin implements OnPreStore, defaultresponse.Plugin the two
\* response hooks; a feature plugin the hooks around the store or the
\* response hooks
storagePlugin == [id |-> "storage", caps |-> {"prestore"}]
defaultresponsePlugin == [id |-> "defaultresponse", caps |-> {"httpresponse", "dnsresponse"}]

FeatureCaps == {{"prestore", "poststore"}, {"httpresponse", "dnsresponse"}}

PluginChoices ==
    {storagePlugin, defaultresponsePlugin} \cup
    {[id |-> "feature", caps |-> c] : c \in FeatureCaps}

NewPipeline ==
    [store |-> FALSE, plugins |-> <<>>, preStore |-> <<>>, postStore |-> <<>>,
     httpResponse |-> <<>>, dnsResponse |-> <<>>]

\* Register putting a pre-store hook at the head of its list
RegisterPlugin_Prepend(p, plugin) ==
    LET h == [id |-> plugin.id, caps |-> plugin.caps, pos |-> Len(p.plugins) + 1]
    IN [p EXCEPT
          !.plugins = Append(@, h),
          !.preStore = IF "prestore" \in plugin.caps THEN <<h>> \o @ ELSE @,
          !.postStore = IF "poststore" \in plugin.caps THEN Append(@, h) ELSE @,
          !.httpResponse = IF "httpresponse" \in plugin.caps THEN Append(@, h) ELSE @,
          !.dnsResponse = IF "dnsresponse" \in plugin.caps THEN Append(@, h) ELSE @]

\* Register: the plugin, tagged with its registration position, joins every
\* hook list whose interface it implements
RegisterPlugin(p, plugin) ==
    LET h == [id |-> plugin.id, caps |-> plugin.caps, pos |-> Len(p.plugins) + 1]
    IN [p EXCEPT
          !.plugins = Append(@, h),
          !.preStore = IF "prestore" \in plugin.caps THEN Append(@, h) ELSE @,
          !.postStore = IF "poststore" \in plugin.caps THEN Append(@, h) ELSE @,
          !.httpResponse = IF "httpresponse" \in plugin.caps THEN Append(@, h) ELSE @,
          !.dnsResponse = IF "dnsresponse" \in plugin.caps THEN Append(@, h) ELSE @]

\* setupPipeline: the storage plugin as store and first plugin, then
\* defaultresponse
setupPipeline ==
    RegisterPlugin(RegisterPlugin([NewPipeline EXCEPT !.store = TRUE], storagePlugin),
                   defaultresponsePlugin)

RcodeSuccess == 0
RcodeNameError == 3

NoRun ==
    [pc |-> "idle", idx |-> 0, caller |-> "none", kind |-> "none",
     draft |-> [TokenValue |-> "", TokenID |-> 0, Drop |-> FALSE, Attributes |-> NoAttributes,
                Detail |-> FALSE, QType |-> ""],
     InteractionID |-> 0,
     resp |-> [present |-> FALSE, code |-> 0, answers |-> <<>>, body |-> "", Handled |-> FALSE],
     calls |-> <<>>, warns |-> 0, err |-> FALSE]

\* The response hook list of the protocol of the event
ResponseHooks(p, kind) == IF kind = "http" THEN p.httpResponse ELSE p.dnsResponse

ResponsePhase(kind) == IF kind = "http" THEN "httpresponse" ELSE "dnsresponse"

\* Where the for loops of ProcessHTTP / ProcessDNS go next: the first
\* phase from `phase` on that has a hook to call, "store" always being
\* visited
PhaseFrom(p, kind, phase) ==
    IF phase = "prestore" /\ Len(p.preStore) > 0 THEN "prestore"
    ELSE IF phase \in {"prestore", "store"} THEN "store"
    ELSE IF phase = "poststore" /\ Len(p.postStore) > 0 THEN "poststore"
    ELSE IF phase \in {"poststore", "response"} /\ Len(ResponseHooks(p, kind)) > 0
         THEN "response"
    ELSE "done"

\* Entry of ProcessHTTP / ProcessDNS with the event the caller built
Enter(p, caller, kind, draft, resp) ==
    [NoRun EXCEPT
       !.pc = PhaseFrom(p, kind, "prestore"), !.idx = 1, !.caller = caller,
       !.kind = kind, !.draft = draft, !.resp = resp]

\* The log of the calls the pipeline made: who, its registration position,
\* which hook or store method, whether it returned an error, and for a
\* response hook whether the plan was handled when it returned
Call(r, plugin, phase, err) ==
    Append(r.calls, [plugin |-> plugin, pos |-> 0, phase |-> phase, err |-> err,
                     handled |-> FALSE])

HookCall(r, hook, phase, err, handled) ==
    Append(r.calls, [plugin |-> hook.id, pos |-> hook.pos, phase |-> phase, err |-> err,
                     handled |-> handled])

\* storage.Plugin.OnPreStore
storageOnPreStore(d, draft, fail) ==
    IF draft.TokenID # 0 THEN [draft |-> draft, err |-> FALSE]
    ELSE IF draft.TokenValue = "" THEN [draft |-> draft, err |-> FALSE]
    ELSE LET r == GetTokenByValue(d, draft.TokenValue, fail = "get_token")
         IN IF r.err THEN [draft |-> draft, err |-> TRUE]
            ELSE IF r.tok.id # 0
                 THEN [draft |-> [draft EXCEPT !.TokenID = r.tok.id], err |-> FALSE]
            ELSE [draft |-> draft, err |-> FALSE]

\* What one call of a feature plugin's hook may do
PreOutcomes == {"ok", "err", "drop"}
PostOutcomes == {"ok", "err"}
RespOutcomes == {"ok", "err", "handled"}

\* OnPreStore of a plugin: the draft it leaves and whether it returned an error
OnPreStore(hook, d, draft, o, fail) ==
    IF hook.id = "storage" THEN storageOnPreStore(d, draft, fail)
    ELSE [draft |-> [draft EXCEPT !.Drop = IF o = "drop" THEN TRUE ELSE @],
          err |-> (o = "err")]

\* The pre-store loop returning the error of a hook
AfterPreStore_Abort(p, r, d, o, fail) ==
    LET hook == p.preStore[r.idx]
        x == OnPreStore(hook, d, r.draft, o, fail)
        last == r.idx = Len(p.preStore)
    IN [r EXCEPT
          !.draft = x.draft,
          !.calls = HookCall(r, hook, "prestore", x.err, FALSE),
          !.err = x.err,
          !.pc = IF x.err THEN "done" ELSE IF last THEN "store" ELSE "prestore",
          !.idx = IF last THEN 1 ELSE @ + 1]

\* One iteration of the pre-store loop
AfterPreStore(p, r, d, o, fail) ==
    LET hook == p.preStore[r.idx]
        x == OnPreStore(hook, d, r.draft, o, fail)
        last == r.idx = Len(p.preStore)
    IN [r EXCEPT
          !.draft = x.draft,
          !.calls = HookCall(r, hook, "prestore", x.err, FALSE),
          !.warns = IF x.err THEN @ + 1 ELSE @,
          !.pc = IF last THEN "store" ELSE "prestore",
          !.idx = IF last THEN 1 ELSE @ + 1]

\* storage.Plugin.CreateInteraction without the test of TokenID
storageCreateInteraction_NoTokenTest(d, kind, draft, fk, fail) ==
    LET b == CreateInteraction(d, draft.TokenID, kind, fk, fail = "insert_interaction")
        x == IF ~draft.Detail THEN [db |-> b.db, err |-> FALSE]
             ELSE IF kind = "http"
             THEN CreateHTTPInteraction(b.db, b.id, fk, fail = "insert_detail")
             ELSE CreateDNSInteraction(b.db, b.id, fk, fail = "insert_detail")
    IN IF b.err THEN [db |-> d, id |-> 0, err |-> TRUE]
       ELSE IF x.err THEN [db |-> b.db, id |-> 0, err |-> TRUE]
       ELSE [db |-> x.db, id |-> b.id, err |-> FALSE]

\* storage.Plugin.CreateInteraction: the base row, then the detail row of
\* the kind
storageCreateInteraction(d, kind, draft, fk, fail) ==
    IF draft.TokenID = 0 THEN [db |-> d, id |-> 0, err |-> FALSE]
    ELSE LET b == CreateInteraction(d, draft.TokenID, kind, fk, fail = "insert_interaction")
             x == IF ~draft.Detail THEN [db |-> b.db, err |-> FALSE]
                  ELSE IF kind = "http"
                  THEN CreateHTTPInteraction(b.db, b.id, fk, fail = "insert_detail")
                  ELSE CreateDNSInteraction(b.db, b.id, fk, fail = "insert_detail")
         IN IF b.err THEN [db |-> d, id |-> 0, err |-> TRUE]
            ELSE IF x.err THEN [db |-> b.db, id |-> 0, err |-> TRUE]
            ELSE [db |-> x.db, id |-> b.id, err |-> FALSE]

\* The storage block without the test of Drop
AfterStore_IgnoreDrop(p, r, d, fk, fail) ==
    IF ~p.store
    THEN [db |-> d, run |-> [r EXCEPT !.pc = PhaseFrom(p, r.kind, "poststore"), !.idx = 1]]
    ELSE LET c == storageCreateInteraction(d, r.kind, r.draft, fk, fail)
             s == SaveAttributes(c.db, c.id, r.draft.Attributes, fk, fail = "save_attributes")
             saved == DOMAIN r.draft.Attributes # {}
             calls1 == Call(r, "store", "CreateInteraction", c.err)
         IN IF c.err
            THEN [db |-> c.db,
                  run |-> [r EXCEPT !.calls = calls1, !.err = TRUE, !.pc = "done"]]
            ELSE [db |-> IF saved THEN s.db ELSE c.db,
                  run |-> [r EXCEPT
                      !.InteractionID = c.id,
                      !.calls = IF saved
                                THEN Call([r EXCEPT !.calls = calls1], "store",
                                          "SaveAttributes", s.err)
                                ELSE calls1,
                      !.warns = IF saved /\ s.err THEN @ + 1 ELSE @,
                      !.pc = PhaseFrom(p, r.kind, "poststore"),
                      !.idx = 1]]

\* The storage block between the pre-store and the post-store loop
AfterStore(p, r, d, fk, fail) ==
    IF r.draft.Drop \/ ~p.store
    THEN [db |-> d, run |-> [r EXCEPT !.pc = PhaseFrom(p, r.kind, "poststore"), !.idx = 1]]
    ELSE LET c == storageCreateInteraction(d, r.kind, r.draft, fk, fail)
             s == SaveAttributes(c.db, c.id, r.draft.Attributes, fk, fail = "save_attributes")
             saved == DOMAIN r.draft.Attributes # {}
             calls1 == Call(r, "store", "CreateInteraction", c.err)
         IN IF c.err
            THEN [db |-> c.db,
                  run |-> [r EXCEPT !.calls = calls1, !.err = TRUE, !.pc = "done"]]
            ELSE [db |-> IF saved THEN s.db ELSE c.db,
                  run |-> [r EXCEPT
                      !.InteractionID = c.id,
                      !.calls = IF saved
                                THEN Call([r EXCEPT !.calls = calls1], "store",
                                          "SaveAttributes", s.err)
                                ELSE calls1,
                      !.warns = IF saved /\ s.err THEN @ + 1 ELSE @,
                      !.pc = PhaseFrom(p, r.kind, "poststore"),
                      !.idx = 1]]

\* The post-store loop left at the first hook that returns an error
AfterPostStore_StopOnError(p, r, o) ==
    LET hook == p.postStore[r.idx]
        last == r.idx = Len(p.postStore)
    IN [r EXCEPT
          !.calls = HookCall(r, hook, "poststore", o = "err", FALSE),
          !.warns = IF o = "err" THEN @ + 1 ELSE @,
          !.pc = IF last \/ o = "err" THEN PhaseFrom(p, r.kind, "response") ELSE "poststore",
          !.idx = IF last \/ o = "err" THEN 1 ELSE @ + 1]

\* One iteration of the post-store loop
AfterPostStore(p, r, o) ==
    LET hook == p.postStore[r.idx]
        last == r.idx = Len(p.postStore)
    IN [r EXCEPT
          !.calls = HookCall(r, hook, "poststore", o = "err", FALSE),
          !.warns = IF o = "err" THEN @ + 1 ELSE @,
          !.pc = IF last THEN PhaseFrom(p, r.kind, "response") ELSE "poststore",
          !.idx = IF last THEN 1 ELSE @ + 1]

\* defaultresponse.Plugin.OnHTTPResponse
OnHTTPResponse(resp) ==
    IF ~resp.present \/ resp.Handled THEN resp
    ELSE [resp EXCEPT !.code = 200, !.body = "ok", !.Handled = TRUE]

\* defaultresponse.Plugin.OnDNSResponse
OnDNSResponse(resp, draft) ==
    IF ~resp.present \/ resp.Handled THEN resp
    ELSE IF ~draft.Detail THEN resp
    ELSE IF draft.QType # "A" THEN resp
    ELSE [resp EXCEPT !.answers = Append(@, "A"), !.Handled = TRUE]

\* The response hook of a plugin: the plan it leaves and whether it erred
OnResponse(hook, kind, resp, draft, o) ==
    IF hook.id = "defaultresponse"
    THEN [resp |-> IF kind = "http" THEN OnHTTPResponse(resp) ELSE OnDNSResponse(resp, draft),
          err |-> FALSE]
    ELSE [resp |-> IF o = "handled" /\ resp.present
                   THEN [resp EXCEPT !.Handled = TRUE] ELSE resp,
          err |-> (o = "err")]

\* The response loop without its break
AfterResponse_NoBreak(p, r, o) ==
    LET hooks == ResponseHooks(p, r.kind)
        hook == hooks[r.idx]
        x == OnResponse(hook, r.kind, r.resp, r.draft, o)
        stop == r.idx = Len(hooks)
    IN [r EXCEPT
          !.resp = x.resp,
          !.calls = HookCall(r, hook, ResponsePhase(r.kind), x.err,
                             x.resp.present /\ x.resp.Handled),
          !.warns = IF x.err THEN @ + 1 ELSE @,
          !.pc = IF stop THEN "done" ELSE "response",
          !.idx = IF stop THEN @ ELSE @ + 1]

\* One iteration of the response loop, with its break on Handled
AfterResponse(p, r, o) ==
    LET hooks == ResponseHooks(p, r.kind)
        hook == hooks[r.idx]
        x == OnResponse(hook, r.kind, r.resp, r.draft, o)
        stop == (x.resp.present /\ x.resp.Handled) \/ r.idx = Len(hooks)
    IN [r EXCEPT
          !.resp = x.resp,
          !.calls = HookCall(r, hook, ResponsePhase(r.kind), x.err,
                            x.resp.present /\ x.resp.Handled),
          !.warns = IF x.err THEN @ + 1 ELSE @,
          !.pc = IF stop THEN "done" ELSE "response",
          !.idx = IF stop THEN @ ELSE @ + 1]

\* --------------------------------------------------------------- names
Lower(l) ==
    CASE l = "TOKA" -> "toka"
      [] l = "_ACME-CHALLENGE" -> "_acme-challenge"
      [] l = "OAST" -> "oast"
      [] l \in {"EXAMPLE", "Example"} -> "example"
      [] l = "COM" -> "com"
      [] OTHER -> l

ToLower(n) == [n EXCEPT !.labels = [i \in 1..Len(n.labels) |-> Lower(n.labels[i])]]

\* strings.TrimSuffix(name, ".")
TrimSuffixDot(n) == IF n.dots > 0 THEN [n EXCEPT !.dots = @ - 1] ELSE n

\* acme.NormalizeName
NormalizeName(n) == TrimSuffixDot(ToLower(n))

\* strings.HasSuffix(n, "." + d) for a d without trailing dot
HasDotSuffix(n, d) ==
    /\ n.dots = 0
    /\ Len(n.labels) > Len(d.labels)
    /\ SubSeq(n.labels, Len(n.labels) - Len(d.labels) + 1, Len(n.labels)) = d.labels

FQDN(labels) == [labels |-> labels, dots |-> 1]

Domain == [labels |-> <<"oast", "test">>, dots |-> 0]

Sub(l, d) == [labels |-> <<l>> \o d.labels, dots |-> d.dots]

\* extractTokenFromQName returning the label next to the domain
extractTokenFromQName_Rightmost(qname, domain) ==
    LET dom == ToLower(domain)
    IN IF ~HasDotSuffix(qname, dom) /\ qname # dom THEN ""
       ELSE IF qname = dom THEN ""
       ELSE qname.labels[Len(qname.labels) - Len(dom.labels)]

\* extractTokenFromQName: the leftmost label of a name below the domain
extractTokenFromQName(qname, domain) ==
    LET dom == ToLower(domain)
    IN IF ~HasDotSuffix(qname, dom) /\ qname # dom THEN ""
       ELSE IF qname = dom THEN ""
       ELSE qname.labels[1]

\* ----------------------------------------------------------- TXT store
VARIABLES
    cfg,    \* boot configuration: PublicIP and whether ACME mode made a TXT store
    txt     \* TXTStore.records: normalized name -> set of values

TXTGet(records, fqdn) ==
    LET n == NormalizeName(fqdn)
    IN IF n \in DOMAIN records THEN records[n] ELSE {}

TXTAdd(records, fqdn, value) ==
    LET n == NormalizeName(fqdn)
    IN [x \in DOMAIN records \cup {n} |->
          IF x = n THEN (IF n \in DOMAIN records THEN records[n] ELSE {}) \cup {value}
          ELSE records[x]]

\* Remove deleting the slot of the name whatever it still holds
TXTRemove_DropName(records, fqdn, value) ==
    LET n == NormalizeName(fqdn)
    IN IF n \notin DOMAIN records THEN records
       ELSE [x \in DOMAIN records \ {n} |-> records[x]]

TXTRemove(records, fqdn, value) ==
    LET n == NormalizeName(fqdn)
    IN IF n \notin DOMAIN records THEN records
       ELSE IF records[n] \ {value} = {}
       THEN [x \in DOMAIN records \ {n} |-> records[x]]
       ELSE [records EXCEPT ![n] = @ \ {value}]

\* -------------------------------------------------------- DNS listener
VARIABLES
    dns     \* handleDNS: the reply under construction and the question at hand

QTypes == {"A", "TXT", "SOA", "NS"}

QNames ==
    {FQDN(<<"oast", "test">>), FQDN(<<"ns1", "oast", "test">>),
     FQDN(<<"toka", "oast", "test">>), FQDN(<<"TOKA", "oast", "test">>),
     FQDN(<<"nosuch", "oast", "test">>), FQDN(<<"x", "toka", "oast", "test">>),
     FQDN(<<"_acme-challenge", "oast", "test">>), FQDN(<<"toka", "evil", "com">>)}

Questions == [Name : QNames, Qtype : QTypes]

ChallengeName == FQDN(<<"_acme-challenge", "oast", "test">>)

NoQuestion == [Name |-> [labels |-> <<>>, dots |-> 0], Qtype |-> ""]

DNSIdle ==
    [state |-> "idle", left |-> 0, m |-> [Rcode |-> RcodeSuccess, Answer |-> <<>>],
     q |-> NoQuestion, route |-> "", done |-> FALSE, seq0 |-> 0]

\* handleDNS answering NXDOMAIN to a TXT question the store has no value for
Route_TXTMissIsNameError(c, records, q) ==
    LET qname == ToLower(TrimSuffixDot(q.Name))
    IN IF q.Qtype = "SOA" /\ (qname = Domain \/ HasDotSuffix(qname, Domain)) THEN "soa"
       ELSE IF q.Qtype = "NS" /\ qname = Domain THEN "ns"
       ELSE IF qname = Sub("ns1", Domain) THEN "ns1"
       ELSE IF qname = Domain /\ q.Qtype = "A" /\ c.PublicIP # "" THEN "apex_a"
       ELSE IF q.Qtype = "TXT" /\ c.TXTStore /\ TXTGet(records, q.Name) # {} THEN "txt"
       ELSE IF q.Qtype = "TXT" /\ c.TXTStore THEN "no_token"
       ELSE IF extractTokenFromQName(qname, Domain) = "" THEN "no_token"
       ELSE "pipeline"

\* Which branch of the loop body of handleDNS takes the question
Route(c, records, q) ==
    LET qname == ToLower(TrimSuffixDot(q.Name))
    IN IF q.Qtype = "SOA" /\ (qname = Domain \/ HasDotSuffix(qname, Domain)) THEN "soa"
       ELSE IF q.Qtype = "NS" /\ qname = Domain THEN "ns"
       ELSE IF qname = Sub("ns1", Domain) THEN "ns1"
       ELSE IF qname = Domain /\ q.Qtype = "A" /\ c.PublicIP # "" THEN "apex_a"
       ELSE IF q.Qtype = "TXT" /\ c.TXTStore /\ TXTGet(records, q.Name) # {} THEN "txt"
       ELSE IF extractTokenFromQName(qname, Domain) = "" THEN "no_token"
       ELSE "pipeline"

TXTAnswers(n) == [i \in 1..n |-> "TXT"]

\* The reply after a question that the handler answers itself
Shortcut(c, records, m, q, route) ==
    CASE route = "soa" -> [m EXCEPT !.Answer = Append(@, "SOA")]
      [] route = "ns" -> [m EXCEPT !.Answer = Append(@, "NS")]
      [] route = "ns1" ->
            IF q.Qtype = "A" /\ c.PublicIP # "" THEN [m EXCEPT !.Answer = Append(@, "A")] ELSE m
      [] route = "apex_a" -> [m EXCEPT !.Answer = Append(@, "A")]
      [] route = "txt" ->
            [m EXCEPT !.Answer = @ \o TXTAnswers(Cardinality(TXTGet(records, q.Name)))]
      [] route = "no_token" -> [m EXCEPT !.Rcode = RcodeNameError]

\* The event handleDNS builds for a question with a token
DNSDraft(q) ==
    [TokenValue |-> extractTokenFromQName(ToLower(TrimSuffixDot(q.Name)), Domain),
     TokenID |-> 0, Drop |-> FALSE, Attributes |-> NoAttributes, Detail |-> TRUE,
     QType |-> q.Qtype]

DNSResponsePlan ==
    [present |-> TRUE, code |-> RcodeSuccess, answers |-> <<>>, body |-> "", Handled |-> FALSE]

\* ------------------------------------------------------- HTTP listener
VARIABLES
    http    \* HTTPServer.ServeHTTP: the request being served and its response

Host(labels) == [labels |-> labels, dots |-> 0, port |-> "", brackets |-> FALSE]

\* r.Host with a port, and in brackets or not
HostPort(labels, port, brackets) ==
    [labels |-> labels, dots |-> 0, port |-> port, brackets |-> brackets]

Hosts ==
    {Host(<<"toka", "oast", "test">>), Host(<<"tokb", "oast", "test">>),
     Host(<<"nosuch", "oast", "test">>), Host(<<"x", "toka", "oast", "test">>),
     Host(<<"toka", "x", "oast", "test">>), Host(<<"oast", "test">>),
     Host(<<"192.0.2.1">>), Host(<<"evil", "com">>), Host(<<"">>),
     HostPort(<<"toka", "oast", "test">>, "8080", FALSE),
     HostPort(<<"evil", "com">>, "80", FALSE),
     HostPort(<<"192.0.2.1">>, "443", TRUE), HostPort(<<"192.0.2.1">>, "", TRUE)}

\* URL paths as the segments after the leading slash
Paths ==
    {<<"">>, <<"oast", "toka">>, <<"oast", "tokb", "x">>, <<"oast", "">>,
     <<".well-known", "acme-challenge", "abc">>}

HTTPIdle == [state |-> "idle", host |-> Host(<<>>), path |-> <<>>, status |-> 0, body |-> ""]

\* net.SplitHostPort: fails on a host without a port; otherwise the host
\* part, out of its brackets
SplitHostPort(host) ==
    IF host.port = "" THEN [host |-> host, err |-> TRUE]
    ELSE [host |-> [host EXCEPT !.port = "", !.brackets = FALSE], err |-> FALSE]

\* The first lines of ExtractToken and isValidHost: the host without its
\* port, then strings.Trim(host, "[]")
StripHost(host) ==
    LET s == SplitHostPort(host)
        h == IF ~s.err THEN s.host ELSE host
    IN [labels |-> h.labels, dots |-> h.dots]

\* ExtractToken taking the leftmost label of the host
ExtractToken_Leftmost(host, path, domain) ==
    LET h == StripHost(host)
        fromHost == IF HasDotSuffix(h, domain) THEN h.labels[1] ELSE ""
        fromPath == IF Len(path) >= 2 /\ path[1] = "oast" THEN path[2] ELSE ""
    IN IF fromHost # "" THEN fromHost ELSE fromPath

\* ExtractToken: the label next to the domain, else the segment after /oast/
ExtractToken(host, path, domain) ==
    LET h == StripHost(host)
        n == Len(h.labels) - Len(domain.labels)
        fromHost == IF HasDotSuffix(h, domain) THEN h.labels[n] ELSE ""
        fromPath == IF Len(path) >= 2 /\ path[1] = "oast" THEN path[2] ELSE ""
    IN IF fromHost # "" THEN fromHost ELSE fromPath

\* isValidHost without the test that a public IP is configured
isValidHost_NoIPTest(c, host) ==
    LET h == StripHost(host)
    IN \/ HasDotSuffix(h, Domain)
       \/ h = Domain
       \/ h = [labels |-> <<c.PublicIP>>, dots |-> 0]

isValidHost(c, host) ==
    LET h == StripHost(host)
    IN \/ HasDotSuffix(h, Domain)
       \/ h = Domain
       \/ (c.PublicIP # "" /\ h = [labels |-> <<c.PublicIP>>, dots |-> 0])

HTTPDraft(host, path) ==
    [TokenValue |-> ExtractToken(host, path, Domain), TokenID |-> 0, Drop |-> FALSE,
     Attributes |-> NoAttributes, Detail |-> TRUE, QType |-> ""]

HTTPResponsePlan ==
    [present |-> TRUE, code |-> 200, answers |-> <<>>, body |-> "ok", Handled |-> FALSE]

\* ------------------------------------------------- TXT store goroutines
VARIABLES
    mu,     \* TXTStore.mu: whether a writer holds it, and the number of readers
    g,      \* the goroutines calling Add, Remove and Get: position and locals
    ser     \* the writes in the order in which they released the lock

Writers == {"w1", "w2"}
Reader == "r"

Unlocked == [writer |-> FALSE, readers |-> 0]

Parked == [pc |-> "idle", op |-> "", value |-> "", vals |-> FALSE, result |-> {}]

NoGoroutines == [x \in Writers \cup {Reader} |-> Parked]

txs == <<mu, g, ser>>

\* ------------------------------------------------------ pure functions
VARIABLES
    eval    \* the function applied last, its arguments and what it returned

NoEval == [fn |-> "", arg |-> <<>>, ret |-> <<>>]

\* --------------------------------------------------------- ACME manager
VARIABLES
    manager,    \* acme.Manager: dnsConfig, ipConfig, and whether certmagic holds an IP certificate
    https       \* the HTTPS listener: the tls.Config it was started with, the ClientHello at hand

\* NewManager: both configs nil
NewManager == [dnsConfig |-> FALSE, ipConfig |-> FALSE, ipCert |-> FALSE]

NoHTTPS == [TLSConfig |-> "unset", hello |-> <<>>]

tls == <<manager, https>>

\* ------------------------------------------------------------ runServer
VARIABLES
    srv     \* runServer: its position, the listeners, the stop requests, the database handle

\* The listeners runServer starts, in the order it stops them; HTTPS only
\* with ACME or a manual certificate
Listeners(c) == IF c.TXTStore THEN <<"https", "http", "api", "dns">> ELSE <<"http", "api", "dns">>

\* runServer blocked on the signal channel: the database open, the
\* listeners serving, no stop requested yet
Serving(c) ==
    [pc |-> "serving", order |-> Listeners(c), next |-> 1, busy |-> {},
     asked |-> [l \in {} |-> ""], returned |-> {}, expired |-> FALSE, dbOpen |-> TRUE]

\* ------------------------------------------------------- startup probes
VARIABLES
    probe   \* DNSServer.Start and ManagedServer.WaitForStartup: the call, the listener goroutines, the timer

\* A startup call blocked in its select: the listener goroutines inside
\* ListenAndServe, nothing on the error channels, the timer running.
\* failed[l] is "" while ListenAndServe of l has not returned, else whether
\* its error was reported before or after the timer fired
Probing(listeners) ==
    [pc |-> "select", result |-> "", elapsed |-> FALSE,
     failed |-> [l \in listeners |-> ""]]

\* DNSServer.Start(udpPort, tcpPort) and WaitForStartup of the HTTP and the
\* API ManagedServer
NoProbe == [dns |-> Probing({"udp", "tcp"}), http |-> Probing({"http"}), api |-> Probing({"api"})]

\* ------------------------------------------------------------ migrations
VARIABLES
    mig     \* Open / applyMigrations: the embedded files, the ledger, the position in the loop

\* Before the first Open: no schema_migrations table, nothing embedded chosen
NotOpened ==
    [pc |-> "none", files |-> {}, pending |-> <<>>, ledger |-> {}, ran |-> <<>>]

\* ------------------------------------------------------------- actions
vars == <<db, api, pipeline, run, cfg, txt, dns, http, mu, g, ser, eval, manager, https, srv, probe, mig>>

\* No listener is inside a pipeline call
NoCall == dns.state # "pipeline" /\ http.state # "pipeline" /\ run.pc \in {"idle", "done"}

\* No handler is running
Quiescent == NoCall /\ dns.state = "idle"

\* One request to the REST API, served to completion
API(Rts, Hdrs, F) ==
    /\ Quiescent
    /\ APIRequest(Rts, Hdrs, F)
    /\ UNCHANGED <<pipeline, run, cfg, mig, probe, srv, tls, txt, dns, http, txs, eval>>

\* Pipeline.Register
Register(P) ==
    /\ run.pc = "idle"
    /\ Len(pipeline.plugins) < MaxPlugins
    /\ \E plugin \in P : pipeline' = RegisterPlugin(pipeline, plugin)
    /\ UNCHANGED <<db, api, run, cfg, mig, probe, srv, tls, txt, dns, http, txs, eval>>

\* Pipeline.SetStore with the storage plugin
SetStore ==
    /\ run.pc = "idle"
    /\ ~pipeline.store
    /\ pipeline' = [pipeline EXCEPT !.store = TRUE]
    /\ UNCHANGED <<db, api, run, cfg, mig, probe, srv, tls, txt, dns, http, txs, eval>>

\* The drafts a direct caller of the pipeline hands over: a token value to
\* resolve, one the caller resolved itself, and one no row matches
Drafts(kind) ==
    {[TokenValue |-> t[1], TokenID |-> t[2], Drop |-> FALSE, Attributes |-> t[3],
      Detail |-> TRUE, QType |-> IF kind = "dns" THEN "A" ELSE ""] :
        t \in {<<"toka", 0, NoAttributes>>, <<"toka", 1, [k \in {"k"} |-> GoString("v")]>>,
               <<"nosuch", 0, [k \in {"k"} |-> GoString("v")]>>}}

Plans(kind) ==
    {[NoRun.resp EXCEPT !.present = FALSE],
     IF kind = "http" THEN HTTPResponsePlan ELSE DNSResponsePlan}

\* ProcessHTTP / ProcessDNS called directly with an event
Process(kind) ==
    /\ NoCall
    /\ db.seq_interactions < MaxInteractions
    /\ \E draft \in Drafts(kind), resp \in Plans(kind) :
          run' = Enter(pipeline, "direct", kind, draft, resp)
    /\ UNCHANGED <<db, api, pipeline, cfg, mig, probe, srv, tls, txt, dns, http, txs, eval>>

ProcessHTTP == Process("http")

ProcessDNS == Process("dns")

\* The next pre-store hook
StepPreStore(F) ==
    /\ run.pc = "prestore"
    /\ \E o \in PreOutcomes, fail \in F :
          run' = AfterPreStore(pipeline, run, db, o, fail)
    /\ UNCHANGED <<db, api, pipeline, cfg, mig, probe, srv, tls, txt, dns, http, txs, eval>>

\* The storage block
StepStore(F) ==
    /\ run.pc = "store"
    /\ \E fk \in ConnForeignKeys, fail \in F :
          LET x == AfterStore(pipeline, run, db, fk, fail)
          IN db' = x.db /\ run' = x.run
    /\ UNCHANGED <<api, pipeline, cfg, mig, probe, srv, tls, txt, dns, http, txs, eval>>

\* The next post-store hook
StepPostStore ==
    /\ run.pc = "poststore"
    /\ \E o \in PostOutcomes : run' = AfterPostStore(pipeline, run, o)
    /\ UNCHANGED <<db, api, pipeline, cfg, mig, probe, srv, tls, txt, dns, http, txs, eval>>

\* The next response hook
StepResponse ==
    /\ run.pc = "response"
    /\ \E o \in RespOutcomes : run' = AfterResponse(pipeline, run, o)
    /\ UNCHANGED <<db, api, pipeline, cfg, mig, probe, srv, tls, txt, dns, http, txs, eval>>

\* Whether certmagic's HandleHTTPChallenge answers: it does so only for a
\* host with an HTTP-01 challenge in progress, which the server orders for
\* its public IP alone
PendingChallenge(c, host) ==
    IF c.PublicIP # "" /\ StripHost(host) = [labels |-> <<c.PublicIP>>, dots |-> 0]
    THEN BOOLEAN ELSE {FALSE}

\* ServeHTTP returning after the responder whatever the responder says
HTTPRequest_StopAtChallengePath(Hs, Ps) ==
    /\ Quiescent
    /\ db.seq_interactions < MaxInteractions
    /\ \E host \in Hs, path \in Ps :
       \E challenge \in PendingChallenge(cfg, host) :
          LET req == [HTTPIdle EXCEPT !.host = host, !.path = path]
          IN IF Len(path) >= 3 /\ path[1] = ".well-known" /\ path[2] = "acme-challenge"
             THEN http' = [req EXCEPT !.status = 200,
                                      !.body = IF challenge THEN "challenge" ELSE ""]
                  /\ run' = run
             ELSE IF ~isValidHost(cfg, host)
             THEN http' = [req EXCEPT !.status = 404] /\ run' = run
             ELSE IF ExtractToken(host, path, Domain) = ""
             THEN http' = [req EXCEPT !.status = 200, !.body = "ok"] /\ run' = run
             ELSE /\ http' = [req EXCEPT !.state = "pipeline"]
                  /\ run' = Enter(pipeline, "http", "http", HTTPDraft(host, path),
                                  HTTPResponsePlan)
    /\ UNCHANGED <<db, api, pipeline, cfg, mig, probe, srv, tls, txt, dns, txs, eval>>

\* ServeHTTP up to the pipeline call, or to the response when the request
\* never reaches the pipeline
HTTPRequest(Hs, Ps) ==
    /\ Quiescent
    /\ db.seq_interactions < MaxInteractions
    /\ \E host \in Hs, path \in Ps :
       \E challenge \in PendingChallenge(cfg, host) :
          LET req == [HTTPIdle EXCEPT !.host = host, !.path = path]
          IN IF Len(path) >= 3 /\ path[1] = ".well-known" /\ path[2] = "acme-challenge"
                /\ challenge
             THEN http' = [req EXCEPT !.status = 200, !.body = "challenge"] /\ run' = run
             ELSE IF ~isValidHost(cfg, host)
             THEN http' = [req EXCEPT !.status = 404] /\ run' = run
             ELSE IF ExtractToken(host, path, Domain) = ""
             THEN http' = [req EXCEPT !.status = 200, !.body = "ok"] /\ run' = run
             ELSE /\ http' = [req EXCEPT !.state = "pipeline"]
                  /\ run' = Enter(pipeline, "http", "http", HTTPDraft(host, path),
                                  HTTPResponsePlan)
    /\ UNCHANGED <<db, api, pipeline, cfg, mig, probe, srv, tls, txt, dns, txs, eval>>

\* ServeHTTP answering 500 when ProcessHTTP returned an error
HTTPRespond_ErrorStatus ==
    /\ http.state = "pipeline"
    /\ run.pc = "done"
    /\ http' = [http EXCEPT !.state = "idle",
                            !.status = IF run.err THEN 500 ELSE run.resp.code,
                            !.body = run.resp.body]
    /\ run' = NoRun
    /\ UNCHANGED <<db, api, pipeline, cfg, mig, probe, srv, tls, txt, dns, txs, eval>>

\* ServeHTTP after ProcessHTTP returned: the plan is written out
HTTPRespond ==
    /\ http.state = "pipeline"
    /\ run.pc = "done"
    /\ http' = [http EXCEPT !.state = "idle", !.status = run.resp.code, !.body = run.resp.body]
    /\ run' = NoRun
    /\ UNCHANGED <<db, api, pipeline, cfg, mig, probe, srv, tls, txt, dns, txs, eval>>

\* handleDNS receives a message of n questions
DNSReceive(N) ==
    /\ Quiescent
    /\ \E n \in N :
          /\ db.seq_interactions < MaxInteractions
          /\ dns' = [DNSIdle EXCEPT !.state = IF n = 0 THEN "idle" ELSE "loop", !.left = n]
    /\ UNCHANGED <<db, api, pipeline, run, cfg, mig, probe, srv, tls, txt, http, txs, eval>>

\* One iteration of the question loop, up to the pipeline call or to the
\* continue of a shortcut; after the last question the reply is written
DNSQuestion(Q) ==
    /\ dns.state = "loop"
    /\ \E q \in Q :
          LET route == Route(cfg, txt, q)
              asked == [dns EXCEPT !.q = q, !.route = route, !.seq0 = db.seq_interactions]
          IN IF route = "pipeline"
             THEN /\ dns' = [asked EXCEPT !.state = "pipeline", !.done = FALSE]
                  /\ run' = Enter(pipeline, "dns", "dns", DNSDraft(q), DNSResponsePlan)
             ELSE /\ dns' = [asked EXCEPT
                               !.m = Shortcut(cfg, txt, dns.m, q, route),
                               !.left = @ - 1,
                               !.state = IF dns.left = 1 THEN "idle" ELSE "loop",
                               !.done = TRUE]
                  /\ run' = run
    /\ UNCHANGED <<db, api, pipeline, cfg, mig, probe, srv, tls, txt, http, txs, eval>>

\* The loop body after ProcessDNS returned: the plan is copied into the reply
DNSResume ==
    /\ dns.state = "pipeline"
    /\ run.pc = "done"
    /\ dns' = [dns EXCEPT
                 !.m = [Rcode |-> run.resp.code, Answer |-> dns.m.Answer \o run.resp.answers],
                 !.left = @ - 1,
                 !.state = IF dns.left = 1 THEN "idle" ELSE "loop",
                 !.done = TRUE]
    /\ UNCHANGED <<db, api, pipeline, run, cfg, mig, probe, srv, tls, txt, http, txs, eval>>

TXTValues == {"v1"}

\* acme.Provider.AppendRecords for the DNS-01 challenge of the domain; the
\* provider runs beside the listeners, also between two questions of a
\* message
AppendRecords ==
    /\ NoCall
    /\ cfg.TXTStore
    /\ \E v \in TXTValues : txt' = TXTAdd(txt, ChallengeName, v)
    /\ UNCHANGED <<db, api, pipeline, run, cfg, mig, probe, srv, tls, dns, http, txs, eval>>

\* acme.Provider.DeleteRecords
DeleteRecords ==
    /\ NoCall
    /\ cfg.TXTStore
    /\ \E v \in TXTValues : txt' = TXTRemove(txt, ChallengeName, v)
    /\ UNCHANGED <<db, api, pipeline, run, cfg, mig, probe, srv, tls, dns, http, txs, eval>>

\* ------------------------------------------------------ specifications
\* Boot configurations: ACME mode (a public IP is required, the TXT store
\* exists) and plain mode without either
Configs ==
    {[PublicIP |-> "192.0.2.1", TXTStore |-> TRUE], [PublicIP |-> "", TXTStore |-> FALSE]}

NoRecords == [x \in {} |-> {}]

PlainMode == {c \in Configs : ~c.TXTStore}

\* The server after boot in a configuration of C: the keys, the core
\* pipeline, no traffic yet
InitServer(C) ==
    /\ db = BootDB
    /\ api = NoRequest
    /\ pipeline = setupPipeline
    /\ run = NoRun
    /\ cfg \in C
    /\ txt = NoRecords
    /\ dns = DNSIdle
    /\ http = HTTPIdle
    /\ mu = Unlocked
    /\ g = NoGoroutines
    /\ ser = <<>>
    /\ eval = NoEval
    /\ manager = NewManager
    /\ https = NoHTTPS
    /\ srv = Serving(cfg)
    /\ probe = NoProbe
    /\ mig = NotOpened

\* The pipeline steps the core plugins give rise to
CoreSteps(F) == StepPreStore(F) \/ StepStore(F) \/ StepResponse

\* The capture traffic of the specifications about the REST API
TokenHosts == {Host(<<"toka", "oast", "test">>)}

RootPath == {<<"">>}

\* REST API and HTTP capture, every statement succeeding
Init == InitServer(PlainMode)

Next ==
    \/ API(Routes, {HdrKey1, HdrKey2}, NoFaults)
    \/ HTTPRequest(TokenHosts, RootPath)
    \/ HTTPRespond
    \/ CoreSteps(NoFaults)

Spec == Init /\ [][Next]_vars

\* REST API with failing statements
NextFault == API(Routes, BadHeaders \cup {HdrKey1}, APIFaults)

SpecFault == Init /\ [][NextFault]_vars

\* ---------------------------------------------------------- properties
TokenRoutes == {"GET /v1/tokens/{token}/interactions", "DELETE /v1/tokens/{token}"}

\* The step serves a request on a token route that passed authentication
\* with a key other than the one that created the token
ForeignRequest ==
    /\ api'.n # api.n
    /\ api'.next
    /\ api'.route \in TokenRoutes
    /\ OwnerOf(db, api'.token) \notin {0, NULL, api'.apiKeyID}

\* C1: a fetch-interactions or delete request on a token created by API key
\* A, authenticated with another valid key B, is answered 404, never 403 and
\* never with the token's data, and leaves the token and its interactions in
\* the store unchanged.
C1_ForeignKeyGets404 ==
    [][ForeignRequest =>
          /\ api'.resp.status = 404
          /\ api'.resp.status # 403
          /\ api'.resp.token = "" /\ api'.resp.interactions = {} /\ ~api'.resp.deleted
          /\ db' = db]_vars

\* A delete by the other key was answered 404 and the token still has its
\* interaction
C1_Witness ==
    /\ api.route = "DELETE /v1/tokens/{token}"
    /\ api.next
    /\ api.resp.status = 404
    /\ OwnerOf(db, api.token) \notin {0, NULL, api.apiKeyID}
    /\ \E t \in db.tokens, i \in db.interactions : t.token = api.token /\ i.token_id = t.id

\* C4: a request whose Authorization header is missing, not a Bearer
\* credential, malformed, of an unknown prefix, of a revoked key or of a
\* wrong secret gets the one response 401 {"error":"unauthorized"}, whatever
\* the cause, and the route handler is not invoked.
C4_UniformUnauthorized ==
    (api.route # "" /\ api.header \in BadHeaders) =>
        /\ api.resp = Unauthorized
        /\ ~api.next
        /\ api.apiKeyID = 0

\* A revoked key asked to delete an existing token and got the 401
C4_Witness ==
    /\ api.header = HdrRevoked
    /\ api.route = "DELETE /v1/tokens/{token}"
    /\ \E t \in db.tokens : t.token = api.token
    /\ api.resp = Unauthorized

\* The rows of d that reference token id or one of the interactions the
\* token had in d0
RowsOf(d0, d, id) ==
    LET mine == {i.id : i \in {x \in d0.interactions : x.token_id = id}}
    IN {i \in d.interactions : i.token_id = id}
       \cup {h \in d.http_interactions : h.interaction_id \in mine}
       \cup {x \in d.dns_interactions : x.interaction_id \in mine}
       \cup {a \in d.interaction_attributes : a.interaction_id \in mine}
       \cup {c \in d.token_plugin_config : c.token_id = id}

\* C10: after a token is deleted, no row of interactions, http_interactions,
\* dns_interactions, interaction_attributes or token_plugin_config references
\* the token or one of its interactions.
C10_DeleteLeavesNoRows ==
    [][(api'.n # api.n /\ api'.route = "DELETE /v1/tokens/{token}" /\ api'.resp.deleted) =>
          RowsOf(db, db', GetTokenByValue(db, api'.token, FALSE).tok.id) = {}]_vars

\* The pipeline on its own, as its tests drive it: plugins are registered,
\* then events are processed; statements of the store may fail
PipeFaults == {"none", "get_token", "insert_interaction", "save_attributes"}

InitPipe ==
    /\ db = CreateToken(BootDB, "toka", 1, TRUE, FALSE).db
    /\ api = NoRequest
    /\ pipeline = NewPipeline
    /\ run = NoRun
    /\ cfg \in PlainMode
    /\ txt = NoRecords
    /\ dns = DNSIdle
    /\ http = HTTPIdle
    /\ mu = Unlocked
    /\ g = NoGoroutines
    /\ ser = <<>>
    /\ eval = NoEval
    /\ manager = NewManager
    /\ https = NoHTTPS
    /\ srv = Serving(cfg)
    /\ probe = NoProbe
    /\ mig = NotOpened

NextPipe ==
    \/ Register(PluginChoices)
    \/ SetStore
    \/ ProcessHTTP
    \/ ProcessDNS
    \/ StepPreStore(PipeFaults)
    \/ StepStore(PipeFaults)
    \/ StepPostStore
    \/ StepResponse

SpecPipe == InitPipe /\ [][NextPipe]_vars

\* ------------------------------------------------- pipeline properties
Rank(phase) ==
    CASE phase = "prestore" -> 1
      [] phase = "CreateInteraction" -> 2
      [] phase = "SaveAttributes" -> 3
      [] phase = "poststore" -> 4
      [] phase \in {"httpresponse", "dnsresponse"} -> 5

\* The registration positions of the calls of a phase, in call order
Called(r, phase) ==
    LET c == SelectSeq(r.calls, LAMBDA x : x.phase = phase)
    IN [i \in 1..Len(c) |-> c[i].pos]

Positions(hooks) == [i \in 1..Len(hooks) |-> hooks[i].pos]

IsPrefix(a, b) == Len(a) <= Len(b) /\ a = SubSeq(b, 1, Len(a))

Increasing(a) == \A i, j \in 1..Len(a) : i < j => a[i] < a[j]

ResponseCalls(r) == Called(r, ResponsePhase(r.kind))

\* The call of CreateInteraction of this event returned an error
CreateFailed(r) == \E i \in 1..Len(r.calls) : r.calls[i].phase = "CreateInteraction" /\ r.calls[i].err

\* Some response hook returned with the plan handled
SomeHandled(r) == \E i \in 1..Len(r.calls) : r.calls[i].handled

\* The response chain ran to its end or to the hook that handled the event
ChainRan(r) ==
    /\ IsPrefix(ResponseCalls(r), Positions(ResponseHooks(pipeline, r.kind)))
    /\ Len(ResponseCalls(r)) = Len(ResponseHooks(pipeline, r.kind)) \/ SomeHandled(r)

\* C5: for every event the pre-store hooks run in registration order, then
\* the storage calls, then the post-store hooks in registration order, then
\* the response hooks of the protocol in registration order, and no hook of
\* a later phase runs before a hook of an earlier one.
C5_PhaseAndRegistrationOrder ==
    /\ \A i, j \in 1..Len(run.calls) :
          i < j => Rank(run.calls[i].phase) <= Rank(run.calls[j].phase)
    /\ Increasing(Positions(pipeline.preStore))
    /\ Increasing(Positions(pipeline.postStore))
    /\ Increasing(Positions(ResponseHooks(pipeline, run.kind)))
    /\ IsPrefix(Called(run, "prestore"), Positions(pipeline.preStore))
    /\ IsPrefix(Called(run, "poststore"), Positions(pipeline.postStore))
    /\ IsPrefix(ResponseCalls(run), Positions(ResponseHooks(pipeline, run.kind)))

\* An event went through two pre-store hooks, both store calls and two
\* post-store hooks
C5_Witness ==
    /\ run.pc = "done"
    /\ Len(Called(run, "prestore")) = 2
    /\ Len(Called(run, "CreateInteraction")) = 1
    /\ Len(Called(run, "SaveAttributes")) = 1
    /\ Len(Called(run, "poststore")) = 2

\* C6: an error returned by a hook never aborts the pipeline, the remaining
\* hooks of the phase and of the later phases run and no error is returned;
\* the pipeline returns an error exactly when storing the interaction failed.
C6_OnlyStorageErrorsAbort ==
    run.pc = "done" =>
        /\ run.err <=> CreateFailed(run)
        /\ Called(run, "prestore") = Positions(pipeline.preStore)
        /\ ~CreateFailed(run) =>
              /\ Called(run, "poststore") = Positions(pipeline.postStore)
              /\ ChainRan(run)

\* Hooks of all three phases returned errors, every hook ran and the
\* pipeline returned nil
C6_Witness ==
    /\ run.pc = "done"
    /\ ~run.err
    /\ \A ph \in {"prestore", "poststore", ResponsePhase(run.kind)} :
          \E i \in 1..Len(run.calls) : run.calls[i].phase = ph /\ run.calls[i].err
    /\ Len(Called(run, "CreateInteraction")) = 1

\* Every hook of the list was called exactly once
EachOnce(r, phase, hooks) ==
    \A k \in 1..Len(hooks) :
        Cardinality({i \in 1..Len(r.calls) :
                        r.calls[i].phase = phase /\ r.calls[i].pos = hooks[k].pos}) = 1

\* C7 as stated: on every call every registered pre-store hook and every
\* registered post-store hook is invoked exactly once.
C7_AllPreAndPostHooksRun ==
    run.pc = "done" =>
        /\ EachOnce(run, "prestore", pipeline.preStore)
        /\ EachOnce(run, "poststore", pipeline.postStore)

\* C7: on every call every registered pre-store hook is invoked exactly
\* once; every registered post-store hook is invoked exactly once when
\* CreateInteraction did not return an error and not at all when it did; a
\* handled response plan shortens only the response chain.
C7_PostHooksRunUnlessStoreFails ==
    run.pc = "done" =>
        /\ EachOnce(run, "prestore", pipeline.preStore)
        /\ ~CreateFailed(run) => EachOnce(run, "poststore", pipeline.postStore)
        /\ CreateFailed(run) => Called(run, "poststore") = <<>>

\* CreateInteraction failed after both pre-store hooks had run, and
\* neither of the two post-store hooks was called
C7_Witness ==
    /\ run.pc = "done"
    /\ CreateFailed(run)
    /\ Len(Called(run, "prestore")) = 2
    /\ Len(pipeline.postStore) = 2
    /\ Called(run, "poststore") = <<>>

\* C8: once a response hook leaves the plan handled, no response hook
\* registered after it is invoked for the event, and every response hook
\* registered before it has been invoked.
C8_HandledEndsResponseChain ==
    /\ \A i \in 1..Len(run.calls) : run.calls[i].handled => i = Len(run.calls)
    /\ SomeHandled(run) => run.pc = "done"
    /\ IsPrefix(ResponseCalls(run), Positions(ResponseHooks(pipeline, run.kind)))

\* The first of two response hooks handled the event and the second was
\* never called
C8_Witness ==
    /\ run.pc = "done"
    /\ Len(ResponseHooks(pipeline, run.kind)) = 2
    /\ Len(ResponseCalls(run)) = 1
    /\ run.calls[Len(run.calls)].handled

\* C9: when the draft is marked drop, CreateInteraction and SaveAttributes
\* are not called for the event and its interaction id stays 0, while the
\* post-store and the response hooks still run.
C9_DropSkipsOnlyStorage ==
    [][/\ (run.pc = "store" /\ run.draft.Drop) =>
             /\ db' = db
             /\ run'.calls = run.calls
             /\ run'.InteractionID = 0
       /\ (run'.pc = "done" /\ run'.draft.Drop) =>
             /\ Called(run', "CreateInteraction") = <<>>
             /\ Called(run', "SaveAttributes") = <<>>
             /\ run'.InteractionID = 0
             /\ ~run'.err
             /\ Called(run', "poststore") = Positions(pipeline'.postStore)
             /\ ChainRan(run')]_vars

\* A pre-store hook dropped an event that carried a token id and
\* attributes, with a store set; the post-store and response hooks ran
C9_Witness ==
    /\ run.pc = "done"
    /\ run.draft.Drop
    /\ pipeline.store
    /\ run.draft.TokenID # 0
    /\ DOMAIN run.draft.Attributes # {}
    /\ Len(Called(run, "poststore")) >= 1
    /\ Len(ResponseCalls(run)) >= 1

\* ---------------------------------------------------- DNS specifications
\* Statements a DNS question may see fail
DNSFaults == {"none", "get_token", "insert_interaction", "insert_detail"}

\* The DNS listener next to the ACME provider
DNSNext(F) ==
    \/ AppendRecords
    \/ DeleteRecords
    \/ DNSReceive(0..MaxQuestions)
    \/ DNSQuestion(Questions)
    \/ DNSResume
    \/ CoreSteps(F)

\* A server of either mode on which key 1 has created the token toka
InitDNS ==
    /\ db = CreateToken(BootDB, "toka", 1, TRUE, FALSE).db
    /\ api = NoRequest
    /\ pipeline = setupPipeline
    /\ run = NoRun
    /\ cfg \in Configs
    /\ txt = NoRecords
    /\ dns = DNSIdle
    /\ http = HTTPIdle
    /\ mu = Unlocked
    /\ g = NoGoroutines
    /\ ser = <<>>
    /\ eval = NoEval
    /\ manager = NewManager
    /\ https = NoHTTPS
    /\ srv = Serving(cfg)
    /\ probe = NoProbe
    /\ mig = NotOpened

NextDNS == DNSNext(NoFaults)

SpecDNS == InitDNS /\ [][NextDNS]_vars

NextDNSFault == DNSNext(DNSFaults)

SpecDNSFault == InitDNS /\ [][NextDNSFault]_vars

\* ------------------------------------------------------ DNS properties
\* The last labels of the name are those of the apex domain
EndsInApex(name) ==
    LET n == Len(name.labels)
        k == Len(Domain.labels)
    IN n >= k /\ [i \in 1..k |-> Lower(name.labels[n - k + i])] = Domain.labels

\* The leftmost label of the name is the value of a row of tokens
LeftmostIsToken(d, name) ==
    Len(name.labels) >= 1 /\ \E t \in d.tokens : t.token = Lower(name.labels[1])

\* The question was answered by the SOA, NS, ns1 or ACME TXT branch
ByShortcut == dns.route \in {"soa", "ns", "ns1", "txt"}

\* An interactions row and its dns_interactions row were written for the
\* question
Persisted ==
    \E i \in db.interactions :
        /\ i.id > dns.seq0
        /\ i.kind = "dns"
        /\ \E x \in db.dns_interactions : x.interaction_id = i.id

\* Nothing was written for the question
NothingWritten ==
    /\ db.seq_interactions = dns.seq0
    /\ \A i \in db.interactions : i.id <= dns.seq0

\* C2: the DNS handler persists an interaction for a question if and only
\* if the name ends in the apex domain, its leftmost label resolves to a
\* known token and none of the SOA / NS / ns1 / ACME-TXT shortcuts answered.
C2_PersistsIffTokenUnderApex ==
    dns.done =>
        (Persisted <=>
            /\ EndsInApex(dns.q.Name)
            /\ LeftmostIsToken(db, dns.q.Name)
            /\ ~ByShortcut)

\* A question for the token in upper case, below the apex, was persisted
C2_Witness ==
    /\ dns.done
    /\ dns.q.Name = FQDN(<<"TOKA", "oast", "test">>)
    /\ Persisted

\* The token lookup of the storage plugin returned an error
LookupFailed ==
    \E i \in 1..Len(run.calls) :
        run.calls[i].plugin = "storage" /\ run.calls[i].phase = "prestore" /\ run.calls[i].err

\* The question is below the apex, no shortcut answered it, and its leftmost
\* label is not a token or the lookup of it failed
UnknownTokenQuestion ==
    /\ dns.done
    /\ EndsInApex(dns.q.Name)
    /\ dns.route \in {"no_token", "pipeline"}
    /\ \/ ~LeftmostIsToken(db, dns.q.Name)
       \/ dns.route = "pipeline" /\ LookupFailed

\* C3 as stated: such a question is answered NXDOMAIN, never with a
\* successful answer.
C3_UnknownTokenIsNXDOMAIN ==
    UnknownTokenQuestion => dns.m.Rcode = RcodeNameError

\* C3: a question below the apex that no shortcut answers and whose
\* leftmost label is not a known token, or whose token lookup fails, is
\* never persisted and never answered SERVFAIL: it passes the pipeline and
\* the reply carries NOERROR, with the default A record for a type A
\* question and no record of its own otherwise; NXDOMAIN is the answer only
\* when the name has no token label.
C3_UnknownTokenGetsDefaultResponse ==
    UnknownTokenQuestion =>
        /\ NothingWritten
        /\ dns.route = "no_token" => dns.m.Rcode = RcodeNameError
        /\ dns.route = "pipeline" =>
              /\ dns.m.Rcode = RcodeSuccess
              /\ ~run.err
              /\ run.resp.answers = IF dns.q.Qtype = "A" THEN <<"A">> ELSE <<>>
              /\ Len(dns.m.Answer) >= Len(run.resp.answers)
              /\ SubSeq(dns.m.Answer, Len(dns.m.Answer) - Len(run.resp.answers) + 1,
                        Len(dns.m.Answer)) = run.resp.answers

\* The lookup of an existing token failed for a type A question: NOERROR
\* with the default record, nothing stored
C3_Witness ==
    /\ UnknownTokenQuestion
    /\ dns.route = "pipeline"
    /\ LookupFailed
    /\ LeftmostIsToken(db, dns.q.Name)
    /\ dns.q.Qtype = "A"
    /\ dns.m.Rcode = RcodeSuccess

\* ------------------------------------------------ storage atomicity

\* An interactions row has the detail row of its kind
HasDetail(d, i) ==
    IF i.kind = "http"
    THEN \E h \in d.http_interactions : h.interaction_id = i.id
    ELSE \E x \in d.dns_interactions : x.interaction_id = i.id

\* C11: createInteraction persists the base row and the detail row of its
\* kind together or neither of them: once it has returned, with the parent
\* id or with an error, no interactions row without its detail row is in
\* the store.
C11_NoBaseRowWithoutDetail ==
    \A i \in db.interactions : HasDetail(db, i)

\* ------------------------------------------- TXT store under goroutines
\* Two goroutines of the ACME provider write, the DNS handler reads.  Every
\* statement of Add, Remove and Get between Lock and Unlock is a step.
MaxWrites == 3

WriteOps == {"Add", "Remove"}

ChallengeValues == {"v1", "v2"}

\* The name as the DNS client spells it in the question
AskedName == FQDN(<<"_ACME-CHALLENGE", "oast", "test">>)

\* A provider callback calls Add or Remove
WriterCall ==
    \E w \in Writers, op \in WriteOps, v \in ChallengeValues :
        /\ g[w].pc = "idle"
        /\ Len(ser) + Cardinality({x \in Writers : g[x].pc # "idle"}) < MaxWrites
        /\ g' = [g EXCEPT ![w] = [Parked EXCEPT !.pc = "lock", !.op = op, !.value = v]]
        /\ UNCHANGED <<db, api, pipeline, run, cfg, mig, probe, srv, tls, txt, dns, http, mu, ser, eval>>

\* s.mu.Lock() that excludes writers only
Lock_WritersOnly ==
    \E w \in Writers :
        /\ g[w].pc = "lock"
        /\ ~mu.writer
        /\ mu' = [mu EXCEPT !.writer = TRUE]
        /\ g' = [g EXCEPT ![w].pc = IF g[w].op = "Add" THEN "add_nil" ELSE "remove_nil"]
        /\ UNCHANGED <<db, api, pipeline, run, cfg, mig, probe, srv, tls, txt, dns, http, ser, eval>>

\* s.mu.Lock(): waits until no writer and no reader holds the mutex
Lock ==
    \E w \in Writers :
        /\ g[w].pc = "lock"
        /\ ~mu.writer /\ mu.readers = 0
        /\ mu' = [mu EXCEPT !.writer = TRUE]
        /\ g' = [g EXCEPT ![w].pc = IF g[w].op = "Add" THEN "add_nil" ELSE "remove_nil"]
        /\ UNCHANGED <<db, api, pipeline, run, cfg, mig, probe, srv, tls, txt, dns, http, ser, eval>>

\* Add: if s.records[fqdn] == nil { s.records[fqdn] = make(...) }
AddMake ==
    \E w \in Writers :
        /\ g[w].pc = "add_nil"
        /\ LET n == NormalizeName(ChallengeName)
           IN txt' = IF n \in DOMAIN txt THEN txt
                     ELSE [x \in DOMAIN txt \cup {n} |-> IF x = n THEN {} ELSE txt[x]]
        /\ g' = [g EXCEPT ![w].pc = "add_put"]
        /\ UNCHANGED <<db, api, pipeline, run, cfg, mig, probe, srv, tls, dns, http, mu, ser, eval>>

\* Add: s.records[fqdn][value] = struct{}{}
AddPut ==
    \E w \in Writers :
        /\ g[w].pc = "add_put"
        /\ txt' = [txt EXCEPT ![NormalizeName(ChallengeName)] = @ \cup {g[w].value}]
        /\ g' = [g EXCEPT ![w].pc = "unlock"]
        /\ UNCHANGED <<db, api, pipeline, run, cfg, mig, probe, srv, tls, dns, http, mu, ser, eval>>

\* Remove: if s.records[fqdn] == nil { return }
RemoveNil ==
    \E w \in Writers :
        /\ g[w].pc = "remove_nil"
        /\ g' = [g EXCEPT ![w].pc = IF NormalizeName(ChallengeName) \in DOMAIN txt
                                    THEN "remove_delete" ELSE "unlock"]
        /\ UNCHANGED <<db, api, pipeline, run, cfg, mig, probe, srv, tls, txt, dns, http, mu, ser, eval>>

\* Remove: delete(s.records[fqdn], value)
RemoveDelete ==
    \E w \in Writers :
        /\ g[w].pc = "remove_delete"
        /\ txt' = [txt EXCEPT ![NormalizeName(ChallengeName)] = @ \ {g[w].value}]
        /\ g' = [g EXCEPT ![w].pc = "remove_len"]
        /\ UNCHANGED <<db, api, pipeline, run, cfg, mig, probe, srv, tls, dns, http, mu, ser, eval>>

\* Remove: if len(s.records[fqdn]) == 0 { delete(s.records, fqdn) }
RemoveEmpty ==
    \E w \in Writers :
        /\ g[w].pc = "remove_len"
        /\ LET n == NormalizeName(ChallengeName)
           IN txt' = IF txt[n] = {} THEN [x \in DOMAIN txt \ {n} |-> txt[x]] ELSE txt
        /\ g' = [g EXCEPT ![w].pc = "unlock"]
        /\ UNCHANGED <<db, api, pipeline, run, cfg, mig, probe, srv, tls, dns, http, mu, ser, eval>>

\* The deferred s.mu.Unlock(): the write is committed
Unlock ==
    \E w \in Writers :
        /\ g[w].pc = "unlock"
        /\ mu' = [mu EXCEPT !.writer = FALSE]
        /\ ser' = Append(ser, [op |-> g[w].op, value |-> g[w].value])
        /\ g' = [g EXCEPT ![w] = Parked]
        /\ UNCHANGED <<db, api, pipeline, run, cfg, mig, probe, srv, tls, txt, dns, http, eval>>

\* handleDNS calls s.TXTStore.Get(normalizedName) for a TXT question
GetCall ==
    /\ g[Reader].pc \in {"idle", "returned"}
    /\ g' = [g EXCEPT ![Reader] = [Parked EXCEPT !.pc = "rlock", !.op = "Get"]]
    /\ UNCHANGED <<db, api, pipeline, run, cfg, mig, probe, srv, tls, txt, dns, http, mu, ser, eval>>

\* s.mu.RLock(): waits while a writer holds the mutex
RLock ==
    /\ g[Reader].pc = "rlock"
    /\ ~mu.writer
    /\ mu' = [mu EXCEPT !.readers = @ + 1]
    /\ g' = [g EXCEPT ![Reader].pc = "get_vals"]
    /\ UNCHANGED <<db, api, pipeline, run, cfg, mig, probe, srv, tls, txt, dns, http, ser, eval>>

\* Get: vals := s.records[fqdn]; if vals == nil { return []string{} }
GetVals ==
    /\ g[Reader].pc = "get_vals"
    /\ LET found == NormalizeName(NormalizeName(AskedName)) \in DOMAIN txt
       IN g' = [g EXCEPT ![Reader].vals = found,
                         ![Reader].pc = IF found THEN "get_range" ELSE "runlock"]
    /\ UNCHANGED <<db, api, pipeline, run, cfg, mig, probe, srv, tls, txt, dns, http, mu, ser, eval>>

\* Get: one iteration of for v := range vals, or the end of the loop.  vals
\* is the map the slot held; a deleted slot's map is empty.
GetRange ==
    /\ g[Reader].pc = "get_range"
    /\ LET n == NormalizeName(NormalizeName(AskedName))
           live == IF n \in DOMAIN txt THEN txt[n] ELSE {}
           rest == live \ g[Reader].result
       IN IF rest = {}
          THEN g' = [g EXCEPT ![Reader].pc = "runlock"]
          ELSE \E v \in rest : g' = [g EXCEPT ![Reader].result = @ \cup {v}]
    /\ UNCHANGED <<db, api, pipeline, run, cfg, mig, probe, srv, tls, txt, dns, http, mu, ser, eval>>

\* The deferred s.mu.RUnlock(), and Get returns
RUnlock ==
    /\ g[Reader].pc = "runlock"
    /\ mu' = [mu EXCEPT !.readers = @ - 1]
    /\ g' = [g EXCEPT ![Reader].pc = "returned"]
    /\ UNCHANGED <<db, api, pipeline, run, cfg, mig, probe, srv, tls, txt, dns, http, ser, eval>>

\* The server in ACME mode with an empty TXT store
InitTXT ==
    /\ InitServer(Configs \ PlainMode)

NextTXT ==
    \/ WriterCall \/ Lock \/ AddMake \/ AddPut
    \/ RemoveNil \/ RemoveDelete \/ RemoveEmpty \/ Unlock
    \/ GetCall \/ RLock \/ GetVals \/ GetRange \/ RUnlock

SpecTXT == InitTXT /\ [][NextTXT]_vars

\* The store after the first k writes of the serialization, each applied
\* as a whole
RECURSIVE Replay(_)
Replay(k) ==
    IF k = 0 THEN NoRecords
    ELSE IF ser[k].op = "Add" THEN TXTAdd(Replay(k - 1), ChallengeName, ser[k].value)
    ELSE TXTRemove(Replay(k - 1), ChallengeName, ser[k].value)

\* C12: with two concurrent writers and one reader, every Get returns the
\* value set the store holds after some prefix of the serialization of the
\* writes; the reader never sees a partially applied write.
C12_GetSeesPrefixOfSerialization ==
    g[Reader].pc = "returned" =>
        \E k \in 0..Len(ser) : g[Reader].result = TXTGet(Replay(k), AskedName)

\* Get returned both values while a writer has since committed a removal
C12_Witness ==
    /\ g[Reader].pc = "returned"
    /\ g[Reader].result = ChallengeValues
    /\ Len(ser) = MaxWrites
    /\ TXTGet(txt, AskedName) # g[Reader].result

\* --------------------------------------------------------- HTTP capture
HTTPFaults == {"none", "get_token", "insert_interaction", "insert_detail"}

\* The server in either boot mode, key 1 owning the token toka
InitHTTP ==
    /\ db = CreateToken(BootDB, "toka", 1, TRUE, FALSE).db
    /\ api = NoRequest
    /\ pipeline = setupPipeline
    /\ run = NoRun
    /\ cfg \in Configs
    /\ txt = NoRecords
    /\ dns = DNSIdle
    /\ http = HTTPIdle
    /\ mu = Unlocked
    /\ g = NoGoroutines
    /\ ser = <<>>
    /\ eval = NoEval
    /\ manager = NewManager
    /\ https = NoHTTPS
    /\ srv = Serving(cfg)
    /\ probe = NoProbe
    /\ mig = NotOpened

NextHTTP ==
    \/ HTTPRequest(Hosts, Paths)
    \/ HTTPRespond
    \/ CoreSteps(HTTPFaults)

SpecHTTP == InitHTTP /\ [][NextHTTP]_vars

\* The pipeline run of the request at hand met a failure: a failed token
\* lookup (logged by the storage plugin) or a failed insert (returned)
CaptureFailed == run.err \/ \E i \in 1..Len(run.calls) : run.calls[i].err

\* C13: when the capture of an HTTP request with a valid host and a token
\* fails inside the pipeline, the client still receives 200 with body ok.
C13_CaptureFailureGets200 ==
    [][(http.state = "pipeline" /\ run.pc = "done" /\ CaptureFailed /\ http'.state = "idle")
          => (http'.status = 200 /\ http'.body = "ok")]_vars

\* A request was answered 200 ok although its detail insert had failed
C13_Witness ==
    /\ http.state = "idle"
    /\ http.status = 200 /\ http.body = "ok"
    /\ \E i \in db.interactions : ~HasDetail(db, i)

\* The labels of the host name without port and brackets
HostLabels(host) == StripHost(host).labels

\* The host is the domain or lies below it
UnderApex(labels) ==
    /\ Len(labels) >= Len(Domain.labels)
    /\ \A i \in 1..Len(Domain.labels) :
          labels[Len(labels) - Len(Domain.labels) + i] = Domain.labels[i]

\* The host is the public IP the server was configured with
IsPublicIP(labels) == cfg.PublicIP # "" /\ labels = <<cfg.PublicIP>>

\* C14: a request whose Host, port and brackets stripped, is neither the
\* domain, a subdomain of it nor the configured public IP is answered 404
\* and never reaches the pipeline, whatever its path.
C14_ForeignHostGets404 ==
    [][(http.state = "idle" /\ http' # http
        /\ ~UnderApex(HostLabels(http'.host)) /\ ~IsPublicIP(HostLabels(http'.host)))
          => (http'.state = "idle" /\ http'.status = 404 /\ http'.body = ""
              /\ run' = run /\ db' = db)]_vars

\* evil.com:80 asked for /oast/toka, toka a known token, and got 404
C14_Witness ==
    /\ http.state = "idle"
    /\ http.host = HostPort(<<"evil", "com">>, "80", FALSE)
    /\ http.path = <<"oast", "toka">>
    /\ http.status = 404
    /\ \E t \in db.tokens : t.token = "toka"

\* The draft of the request the pipeline is working on
Submitted == http.state = "pipeline"

\* C17 as stated: for a host sub1.sub2.<apex> the token is sub1, the
\* leftmost label, and the host <apex> yields no token.
C17_HostTokenIsLeftmostLabel ==
    Submitted =>
        /\ HostLabels(http.host) # Domain.labels
        /\ UnderApex(HostLabels(http.host)) => run.draft.TokenValue = HostLabels(http.host)[1]

\* C17: for a host below the apex the token is the label next to the apex
\* (sub2 of sub1.sub2.<apex>); the host <apex> itself yields no token, and
\* the request is captured only when the path names one after /oast/.
C17_HostTokenIsLabelNextToApex ==
    Submitted =>
        LET l == HostLabels(http.host)
        IN /\ (UnderApex(l) /\ l # Domain.labels)
                => run.draft.TokenValue = l[Len(l) - Len(Domain.labels)]
           /\ l = Domain.labels
                => (Len(http.path) >= 2 /\ http.path[1] = "oast"
                    /\ run.draft.TokenValue = http.path[2])

\* x.toka.<apex> was submitted with the token toka
C17_Witness ==
    /\ Submitted
    /\ http.host = Host(<<"x", "toka", "oast", "test">>)
    /\ run.draft.TokenValue = "toka"

\* ------------------------------------------------- ACME TXT over DNS
\* The step ends the handling of a TXT question for the challenge name
\* while the store holds no value for it
ChallengeGone ==
    /\ dns'.left = dns.left - 1
    /\ dns'.q = [Name |-> ChallengeName, Qtype |-> "TXT"]
    /\ cfg.TXTStore
    /\ TXTGet(txt, ChallengeName) = {}

\* C15 as stated: once the challenge record is deleted again, a TXT query
\* for _acme-challenge.<zone> is answered NXDOMAIN with no TXT record.
C15_DeletedChallengeIsNXDOMAIN ==
    [][ChallengeGone =>
          (dns'.m.Rcode = RcodeNameError /\ dns'.m.Answer = dns.m.Answer)]_vars

\* C15: once the challenge record is deleted again, a TXT query for
\* _acme-challenge.<zone> gets no TXT record and nothing is stored, but the
\* reply is NOERROR: the label _acme-challenge passes the pipeline as an
\* unknown token.
C15_DeletedChallengeIsEmptyNOERROR ==
    [][ChallengeGone =>
          /\ dns.state = "pipeline"
          /\ dns'.m.Rcode = RcodeSuccess
          /\ dns'.m.Answer = dns.m.Answer
          /\ db'.seq_interactions = dns.seq0
          /\ db' = db]_vars

\* A message asked twice for the challenge: the first question was answered
\* from the store, the record was deleted, the second got NOERROR, no record
C15_Witness ==
    /\ dns.done
    /\ dns.q = [Name |-> ChallengeName, Qtype |-> "TXT"]
    /\ dns.route = "pipeline"
    /\ dns.m.Answer = <<"TXT">>
    /\ dns.m.Rcode = RcodeSuccess
    /\ TXTGet(txt, ChallengeName) = {}

\* --------------------------------------------------------- attributes
AttrKeys == {"k1", "k2"}

AttrValues == {GoString("abc"), GoInt(42), GoBytes("ab"), GoNaN}

AttrMaps == UNION {[K -> AttrValues] : K \in SUBSET AttrKeys}

\* Interaction 1 exists, interaction 2 does not
InteractionIDs == {1, 2}

\* db.SaveAttributes called with an id and a map
CallSaveAttributes ==
    \E id \in InteractionIDs, m \in AttrMaps :
    \E fk \in IF \E i \in db.interactions : i.id = id THEN {TRUE} ELSE ConnForeignKeys :
        LET r == SaveAttributes(db, id, m, fk, FALSE)
        IN /\ db' = r.db
           /\ eval' = [fn |-> "SaveAttributes", arg |-> <<id, m>>, ret |-> <<r.err>>]
           /\ UNCHANGED <<api, pipeline, run, cfg, mig, probe, srv, tls, txt, dns, http, txs>>

\* db.GetAttributes called with an id
CallGetAttributes ==
    \E id \in InteractionIDs :
        LET r == GetAttributes(db, id, FALSE)
        IN /\ eval' = [fn |-> "GetAttributes", arg |-> <<id>>, ret |-> <<r.attrs, r.err>>]
           /\ UNCHANGED <<db, api, pipeline, run, cfg, mig, probe, srv, tls, txt, dns, http, txs>>

\* The store with token toka and one captured HTTP interaction of it
InitAttr ==
    /\ db = storageCreateInteraction(
                CreateToken(BootDB, "toka", 1, TRUE, FALSE).db, "http",
                [HTTPDraft(Host(<<"toka", "oast", "test">>), <<"">>) EXCEPT !.TokenID = 1],
                TRUE, "none").db
    /\ api = NoRequest
    /\ pipeline = setupPipeline
    /\ run = NoRun
    /\ cfg \in PlainMode
    /\ txt = NoRecords
    /\ dns = DNSIdle
    /\ http = HTTPIdle
    /\ mu = Unlocked
    /\ g = NoGoroutines
    /\ ser = <<>>
    /\ eval = NoEval
    /\ manager = NewManager
    /\ https = NoHTTPS
    /\ srv = Serving(cfg)
    /\ probe = NoProbe
    /\ mig = NotOpened

NextAttr == CallSaveAttributes \/ CallGetAttributes

SpecAttr == InitAttr /\ [][NextAttr]_vars

\* The step is a SaveAttributes(id, m) that returned no error
Saved == eval'.fn = "SaveAttributes" /\ ~eval'.ret[1]

\* JSON numeric widening: an int is a float64 of the same value
Widened(val) == IF val.t = "int" THEN GoFloat64(val.v) ELSE val

\* What a value is after the store: widened, and a []byte as the string of
\* its base64 text
Stored(val) == IF val.t = "[]byte" THEN GoString(Base64(val.v)) ELSE Widened(val)

\* C16 as stated: saveAttributes(id, m) followed by getAttributes(id)
\* returns exactly m, up to JSON numeric widening.
C16_GetReturnsExactlySaved ==
    [][Saved =>
          LET id == eval'.arg[1]
              m == eval'.arg[2]
          IN GetAttributes(db', id, FALSE).attrs = [k \in DOMAIN m |-> Widened(m[k])]]_vars

\* C16: after a saveAttributes(id, m) that returned no error,
\* getAttributes(id) returns for every key of m the value of m as JSON
\* carries it (an int widened to float64, a []byte as its base64 string)
\* and for every other key what was stored for the id before.
C16_GetReturnsSavedOverStored ==
    [][Saved =>
          LET id == eval'.arg[1]
              m == eval'.arg[2]
              before == GetAttributes(db, id, FALSE).attrs
              after == GetAttributes(db', id, FALSE).attrs
          IN /\ DOMAIN after = DOMAIN before \cup DOMAIN m
             /\ \A k \in DOMAIN m : after[k] = Stored(m[k])
             /\ \A k \in DOMAIN before \ DOMAIN m : after[k] = before[k]]_vars

\* An int and a []byte were saved over an older value of k1 while k2 of an
\* earlier call is still stored
C16_Witness ==
    /\ eval.fn = "SaveAttributes"
    /\ ~eval.ret[1]
    /\ eval.arg[1] = 1
    /\ eval.arg[2] = [k \in {"k1"} |-> GoInt(42)]
    /\ GetAttributes(db, 1, FALSE).attrs =
          [k \in AttrKeys |-> IF k = "k1" THEN GoFloat64(42) ELSE GoString("YWI=")]

\* ------------------------------------------------------ key generation
alphanumeric ==
    <<"a", "b", "c", "d", "e", "f", "g", "h", "i", "j", "k", "l", "m",
      "n", "o", "p", "q", "r", "s", "t", "u", "v", "w", "x", "y", "z",
      "0", "1", "2", "3", "4", "5", "6", "7", "8", "9">>

base62Alphabet ==
    <<"0", "1", "2", "3", "4", "5", "6", "7", "8", "9",
      "A", "B", "C", "D", "E", "F", "G", "H", "I", "J", "K", "L", "M",
      "N", "O", "P", "Q", "R", "S", "T", "U", "V", "W", "X", "Y", "Z",
      "a", "b", "c", "d", "e", "f", "g", "h", "i", "j", "k", "l", "m",
      "n", "o", "p", "q", "r", "s", "t", "u", "v", "w", "x", "y", "z">>

\* new(big.Int).SetBytes(data): the bytes as a big-endian number
RECURSIVE SetBytes(_)
SetBytes(data) ==
    IF data = <<>> THEN 0
    ELSE SetBytes(SubSeq(data, 1, Len(data) - 1)) * 256 + data[Len(data)]

\* The DivMod loop of encodeBase62
RECURSIVE Base62Digits(_)
Base62Digits(num) ==
    IF num = 0 THEN <<>>
    ELSE Base62Digits(num \div Len(base62Alphabet))
            \o <<base62Alphabet[(num % Len(base62Alphabet)) + 1]>>

\* The zero bytes data starts with
RECURSIVE LeadingZeros(_)
LeadingZeros(data) ==
    IF data = <<>> \/ data[1] # 0 THEN <<>>
    ELSE <<"0">> \o LeadingZeros(Tail(data))

encodeBase62(data) ==
    LET result == LeadingZeros(data) \o Base62Digits(SetBytes(data))
    IN IF result = <<>> THEN <<"0">> ELSE result

\* What crypto/rand may deliver for the prefix and for the secret
RandomPrefixBytes == {[i \in 1..prefixLength |-> 0], [i \in 1..prefixLength |-> 35 + i]}

RandomSecretBytes == {<<0, 1>>, <<1, 0>>, <<200, 17>>}

GenerateAPIKey(prefixBytes, secretRaw) ==
    LET prefix == [i \in 1..Len(prefixBytes) |->
                      alphanumeric[(prefixBytes[i] % Len(alphanumeric)) + 1]]
        secret == encodeBase62(secretRaw)
    IN [displayKey |-> servicePrefix \o <<"_">> \o prefix \o <<"_">> \o secret,
        prefix |-> prefix,
        hash |-> HashSecret(secret)]

\* The bytes a presented key may carry in the place of one of its own
MutationBytes == {"a", "0", "Z", "_", "x"}

\* The forms that differ from key in exactly one byte
OneByteMutations(key) ==
    {[key EXCEPT ![i] = b] : i \in 1..Len(key), b \in MutationBytes} \ {key}

\* A key is minted and displayed
CallGenerateAPIKey ==
    \E prefixBytes \in RandomPrefixBytes, secretRaw \in RandomSecretBytes :
        LET k == GenerateAPIKey(prefixBytes, secretRaw)
        IN /\ eval' = [fn |-> "GenerateAPIKey", arg |-> <<prefixBytes, secretRaw>>,
                       ret |-> <<k.displayKey, k.prefix, k.hash>>]
           /\ UNCHANGED <<db, api, pipeline, run, cfg, mig, probe, srv, tls, txt, dns, http, txs>>

\* The minted key, or a form one byte off, is verified against the hash
\* stored for the key; arg[3] remembers the key as minted
CallVerifyAPIKey ==
    /\ eval.fn \in {"GenerateAPIKey", "VerifyAPIKey"}
    /\ LET key == IF eval.fn = "GenerateAPIKey" THEN eval.ret[1] ELSE eval.arg[3]
           hash == IF eval.fn = "GenerateAPIKey" THEN eval.ret[3] ELSE eval.arg[2]
       IN \E form \in {key} \cup OneByteMutations(key) :
             eval' = [fn |-> "VerifyAPIKey", arg |-> <<form, hash, key>>,
                      ret |-> <<VerifyAPIKey(form, hash)>>]
    /\ UNCHANGED <<db, api, pipeline, run, cfg, mig, probe, srv, tls, txt, dns, http, txs>>

NextKeys == CallGenerateAPIKey \/ CallVerifyAPIKey

SpecKeys == Init /\ [][NextKeys]_vars

\* C18 as stated: the display form of a generated key verifies against its
\* stored hash, and every form one byte off does not.
C18_OnlyDisplayFormVerifies ==
    eval.fn = "VerifyAPIKey" => (eval.ret[1] <=> eval.arg[1] = eval.arg[3])

\* The positions of the lookup prefix in a display key
PrefixPositions == (Len(servicePrefix) + 2)..(Len(servicePrefix) + 1 + prefixLength)

\* The form differs from the key in a byte of the lookup prefix and the
\* byte is still a lower-case letter or a digit
PrefixVariant(form, key) ==
    \E i \in PrefixPositions :
        /\ form[i] # key[i]
        /\ form[i] \in LowerAlnum
        /\ \A j \in 1..Len(key) : j # i => form[j] = key[j]

\* The api_keys table holding the key as minted, as row 1
StoredAs(key, hash) == CreateAPIKey(EmptyDB, 1, SubSeq(key, Len(servicePrefix) + 2,
                                    Len(servicePrefix) + 1 + prefixLength), hash, FALSE)

\* C18: the display form of a generated key verifies against its stored
\* hash; a form one byte off fails unless the byte lies in the lookup prefix
\* and is still a lower-case letter or digit, in which case VerifyAPIKey
\* succeeds (only the secret is hashed) and it is the lookup by prefix that
\* rejects the form in AuthMiddleware.
C18_VerifyCoversServiceAndSecret ==
    eval.fn = "VerifyAPIKey" =>
        LET form == eval.arg[1]
            hash == eval.arg[2]
            key == eval.arg[3]
        IN /\ eval.ret[1] <=> (form = key \/ PrefixVariant(form, key))
           /\ AuthMiddleware(StoredAs(key, hash), Bearer(form), "none").ok <=> form = key

\* A form with another digit in its lookup prefix verified against the hash
C18_Witness ==
    /\ eval.fn = "VerifyAPIKey"
    /\ eval.arg[1] # eval.arg[3]
    /\ PrefixVariant(eval.arg[1], eval.arg[3])
    /\ eval.ret[1]
    /\ eval.arg[3] = GenerateAPIKey([i \in 1..prefixLength |-> 35 + i], <<200, 17>>).displayKey

\* ------------------------------------------------------- key removal
\* One DELETE FROM api_keys, on a connection of either kind
CallDeleteAPIKey ==
    /\ Quiescent
    /\ \E id \in {k.id : k \in db.api_keys}, fk \in ConnForeignKeys :
       \E r \in {DeleteAPIKey(db, id, fk, FALSE)} :
          /\ db' = r.db
          /\ eval' = [fn |-> "DeleteAPIKey", arg |-> <<id, fk>>, ret |-> <<r.err>>]
    /\ UNCHANGED <<api, pipeline, run, cfg, mig, probe, srv, tls, txt, dns, http, txs>>

\* The server with key 1 owning toka and a captured request for it, and
\* key 2 owning tokb
InitKeyRemoval ==
    /\ db = storageCreateInteraction(
                CreateToken(CreateToken(BootDB, "toka", 1, TRUE, FALSE).db,
                            "tokb", 2, TRUE, FALSE).db, "http",
                [HTTPDraft(Host(<<"toka", "oast", "test">>), <<"">>) EXCEPT !.TokenID = 1],
                TRUE, "none").db
    /\ api = NoRequest
    /\ pipeline = setupPipeline
    /\ run = NoRun
    /\ cfg \in PlainMode
    /\ txt = NoRecords
    /\ dns = DNSIdle
    /\ http = HTTPIdle
    /\ mu = Unlocked
    /\ g = NoGoroutines
    /\ ser = <<>>
    /\ eval = NoEval
    /\ manager = NewManager
    /\ https = NoHTTPS
    /\ srv = Serving(cfg)
    /\ probe = NoProbe
    /\ mig = NotOpened

\* The REST routes that read or delete, and keys being removed
NextKeyRemoval ==
    \/ API(Routes \ {"POST /v1/tokens"}, {HdrKey1, HdrKey2}, NoFaults)
    \/ CallDeleteAPIKey

SpecKeyRemoval == InitKeyRemoval /\ [][NextKeyRemoval]_vars

\* The step is a DELETE FROM api_keys (a REST request moves api)
DeleteStep == eval'.fn = "DeleteAPIKey" /\ api' = api

\* The key of the statement owns a token
Owns(d, id) == \E t \in d.tokens : t.api_key_id = id

\* Token values whose owner reference names no api_keys row
Orphans(d) ==
    {t.token : t \in {x \in d.tokens :
        x.api_key_id # NULL /\ ~\E k \in d.api_keys : k.id = x.api_key_id}}

\* The step serves a REST fetch or delete for an orphaned token
OrphanRequest == api' # api /\ api'.route \in TokenRoutes /\ api'.token \in Orphans(db)

\* The rows below api_keys are those of before
SameTokenRows ==
    /\ db'.tokens = db.tokens
    /\ db'.interactions = db.interactions
    /\ db'.http_interactions = db.http_interactions
    /\ db'.dns_interactions = db.dns_interactions
    /\ db'.interaction_attributes = db.interaction_attributes
    /\ db'.token_plugin_config = db.token_plugin_config

ParseIP(ip) ==
    CASE ip \in {"192.0.2.1", "198.51.100.7"} -> "v4"
      [] ip \in {"2001:db8::1"} -> "v6"
      [] OTHER -> "nil"

\* ACME-mode boot configurations: an IPv4, an IPv6, an unparsable and no
\* public IP
ManagerConfigs ==
    {[PublicIP |-> ip, TXTStore |-> TRUE] : ip \in {"192.0.2.1", "2001:db8::1", "bogus", ""}}

\* Manage returning the error of the IP config's ManageSync
Manage_IPFailureFatal(m, publicIP, dnsOK, ipOK) ==
    IF ~dnsOK THEN [m |-> [m EXCEPT !.dnsConfig = TRUE], err |-> TRUE]
    ELSE IF publicIP = "" THEN [m |-> [m EXCEPT !.dnsConfig = TRUE], err |-> FALSE]
    ELSE IF ParseIP(publicIP) = "nil" THEN [m |-> [m EXCEPT !.dnsConfig = TRUE], err |-> TRUE]
    ELSE IF ParseIP(publicIP) = "v6" THEN [m |-> [m EXCEPT !.dnsConfig = TRUE], err |-> FALSE]
    ELSE [m |-> [m EXCEPT !.dnsConfig = TRUE, !.ipConfig = TRUE, !.ipCert = ipOK],
          err |-> ~ipOK]

\* Manager.Manage: the DNS config and its two ManageSync calls (dnsOK: both
\* succeed), then the IP track (ipOK: the IP certificate was obtained)
Manage(m, publicIP, dnsOK, ipOK) ==
    IF ~dnsOK THEN [m |-> [m EXCEPT !.dnsConfig = TRUE], err |-> TRUE]
    ELSE IF publicIP = "" THEN [m |-> [m EXCEPT !.dnsConfig = TRUE], err |-> FALSE]
    ELSE IF ParseIP(publicIP) = "nil" THEN [m |-> [m EXCEPT !.dnsConfig = TRUE], err |-> TRUE]
    ELSE IF ParseIP(publicIP) = "v6" THEN [m |-> [m EXCEPT !.dnsConfig = TRUE], err |-> FALSE]
    ELSE [m |-> [m EXCEPT !.dnsConfig = TRUE, !.ipConfig = TRUE, !.ipCert = ipOK],
          err |-> FALSE]

\* Manager.TLSConfig: nil, the DNS config's own tls.Config, or the composed
\* one with the routing GetCertificate
TLSConfig(m) ==
    IF ~m.dnsConfig THEN "nil"
    ELSE IF ~m.ipConfig THEN "dns"
    ELSE "router"

\* strings.Trim(s, cutset) on a name given as a sequence of pieces
RECURSIVE TrimLeft(_, _)
TrimLeft(s, cutset) ==
    IF s # <<>> /\ Head(s) \in cutset THEN TrimLeft(Tail(s), cutset) ELSE s

RECURSIVE TrimRight(_, _)
TrimRight(s, cutset) ==
    IF s # <<>> /\ s[Len(s)] \in cutset THEN TrimRight(SubSeq(s, 1, Len(s) - 1), cutset) ELSE s

Trim(s, cutset) == TrimRight(TrimLeft(s, cutset), cutset)

\* ClientHelloInfo.ServerName values: none, the public IP bare and in
\* brackets, another address, names under and outside the domain
ServerNames ==
    {<<>>, <<"192.0.2.1">>, <<"[", "192.0.2.1", "]">>, <<"[", "192.0.2.1">>, <<"[", "]">>,
     <<"198.51.100.7">>, <<"2001:db8::1">>, <<"oast.test">>, <<"toka.oast.test">>,
     <<"evil.com">>}

\* What ipTLS.GetCertificate returns: a certificate, an error, or neither;
\* a certificate only while certmagic holds one for the IP
IPOutcomes(m) ==
    IF ~m.ipConfig THEN {"unused"}
    ELSE IF m.ipCert THEN {"cert", "err", "nil"}
    ELSE {"err", "nil"}

\* The composed GetCertificate trying the IP config for every name
GetCertificate_IPFirst(config, publicIP, serverName, ipOut) ==
    IF config = "dns" THEN "dns"
    ELSE IF ipOut = "cert" THEN "ip"
    ELSE "dns"

\* GetCertificate of the tls.Config the listener runs with: the config
\* whose certificate selection answers the handshake
GetCertificate(config, publicIP, serverName, ipOut) ==
    IF config = "dns" THEN "dns"
    ELSE LET sni == Trim(serverName, {"[", "]"})
         IN IF (sni = <<>> \/ sni = <<publicIP>>) /\ ipOut = "cert" THEN "ip"
            ELSE "dns"

\* runServer in ACME mode: Manage, then the HTTPS listener is started with
\* manager.TLSConfig(); an error of Manage ends the start
StartHTTPS ==
    /\ https.TLSConfig = "unset"
    /\ ~manager.dnsConfig
    /\ \E dnsOK \in BOOLEAN, ipOK \in BOOLEAN :
       \E r \in {Manage(manager, cfg.PublicIP, dnsOK, ipOK)} :
          /\ manager' = r.m
          /\ https' = IF r.err THEN https ELSE [https EXCEPT !.TLSConfig = TLSConfig(r.m)]
          /\ eval' = [fn |-> "Manage", arg |-> <<cfg.PublicIP, dnsOK, ipOK>>, ret |-> <<r.err>>]
    /\ UNCHANGED <<db, api, pipeline, run, cfg, mig, probe, srv, txt, dns, http, txs>>

\* certmagic's maintenance of the short-lived IP certificate: a retry
\* obtains it, or it lapses when renewal keeps failing
MaintainIPCert ==
    /\ https.TLSConfig # "unset"
    /\ manager.ipConfig
    /\ manager' = [manager EXCEPT !.ipCert = ~@]
    /\ UNCHANGED <<db, api, pipeline, run, cfg, mig, probe, srv, txt, dns, http, txs, eval, https>>

\* A ClientHello arrives on the HTTPS listener
ClientHello ==
    /\ https.TLSConfig \in {"dns", "router"}
    /\ https.hello = <<>>
    /\ \E serverName \in ServerNames : https' = [https EXCEPT !.hello = <<serverName>>]
    /\ UNCHANGED <<db, api, pipeline, run, cfg, mig, probe, srv, txt, dns, http, txs, eval, manager>>

\* crypto/tls calls GetCertificate for the ClientHello at hand
SelectCertificate ==
    /\ https.hello # <<>>
    /\ \E ipOut \in IPOutcomes(manager) :
          eval' = [fn |-> "GetCertificate", arg |-> <<https.hello[1], ipOut>>,
                   ret |-> <<GetCertificate(https.TLSConfig, cfg.PublicIP, https.hello[1], ipOut)>>]
    /\ https' = [https EXCEPT !.hello = <<>>]
    /\ UNCHANGED <<db, api, pipeline, run, cfg, mig, probe, srv, txt, dns, http, txs, manager>>

InitTLS ==
    /\ db = BootDB
    /\ api = NoRequest
    /\ pipeline = setupPipeline
    /\ run = NoRun
    /\ cfg \in ManagerConfigs
    /\ txt = NoRecords
    /\ dns = DNSIdle
    /\ http = HTTPIdle
    /\ mu = Unlocked
    /\ g = NoGoroutines
    /\ ser = <<>>
    /\ eval = NoEval
    /\ manager = NewManager
    /\ https = NoHTTPS
    /\ srv = Serving(cfg)
    /\ probe = NoProbe
    /\ mig = NotOpened

NextTLS == StartHTTPS \/ MaintainIPCert \/ ClientHello \/ SelectCertificate

SpecTLS == InitTLS /\ [][NextTLS]_vars

\* The server name, square brackets aside, is empty or the public IP
EmptyOrPublicIP(serverName) ==
    LET bare == SelectSeq(serverName, LAMBDA x : x \notin {"[", "]"})
    IN bare = <<>> \/ bare = <<cfg.PublicIP>>

\* C20: the certificate selector answers a handshake with the IP
\* certificate exactly when the SNI (brackets of an address literal aside)
\* is empty or equals the public IP and the IP certificate is available;
\* in every other case, also when the IP certificate was never issued or
\* no IP config exists, the DNS config's certificate selection answers
C20_IPCertOnlyForEmptyOrIPSNI ==
    eval.fn = "GetCertificate" =>
        /\ eval.ret[1] \in {"ip", "dns"}
        /\ eval.ret[1] = "ip" <=>
              /\ EmptyOrPublicIP(eval.arg[1])
              /\ manager.ipConfig
              /\ eval.arg[2] = "cert"

\* A handshake without SNI while the IP config exists and holds no
\* certificate was answered from the DNS config
C20_Witness ==
    /\ eval.fn = "GetCertificate"
    /\ eval.arg[1] = <<>>
    /\ manager.ipConfig /\ ~manager.ipCert /\ eval.arg[2] = "err"
    /\ eval.ret[1] = "dns"

\* ------------------------------------------------------------- shutdown
\* The context of a stop request: context.WithTimeout(Background, 30 s), or
\* none (dns.Server.Shutdown waits on context.Background())
ShutdownTimeout == 30

WithTimeout == [deadline |-> ShutdownTimeout]

Background == [deadline |-> NULL]

\* The context runServer hands to the stop request of a listener
StopContext(l) == IF l = "dns" THEN Background ELSE WithTimeout

\* A handler of a listener that has not been asked to stop begins
HandlerBegin ==
    /\ srv.pc \in {"serving", "stopping", "waiting"}
    /\ \E l \in {srv.order[i] : i \in 1..Len(srv.order)} \ (srv.busy \cup DOMAIN srv.asked) :
          srv' = [srv EXCEPT !.busy = @ \cup {l}]
    /\ UNCHANGED <<db, api, pipeline, run, cfg, mig, probe, txt, dns, http, txs, eval, tls>>

\* A handler in flight ends
HandlerEnd ==
    /\ \E l \in srv.busy : srv' = [srv EXCEPT !.busy = @ \ {l}]
    /\ UNCHANGED <<db, api, pipeline, run, cfg, mig, probe, txt, dns, http, txs, eval, tls>>

\* SIGINT / SIGTERM arrives: the 30 s context is created
Signal ==
    /\ srv.pc = "serving"
    /\ srv' = [srv EXCEPT !.pc = "stopping"]
    /\ UNCHANGED <<db, api, pipeline, run, cfg, mig, probe, txt, dns, http, txs, eval, tls>>

\* runServer calls Shutdown on the next listener
StopCall ==
    /\ srv.pc = "stopping"
    /\ srv.next <= Len(srv.order)
    /\ LET l == srv.order[srv.next]
       IN srv' = [srv EXCEPT !.pc = "waiting",
                             !.asked = [x \in DOMAIN @ \cup {l} |->
                                          IF x = l THEN StopContext(l) ELSE @[x]]]
    /\ UNCHANGED <<db, api, pipeline, run, cfg, mig, probe, txt, dns, http, txs, eval, tls>>

\* The 30 s of the context elapse
Expire ==
    /\ srv.pc \in {"stopping", "waiting"}
    /\ ~srv.expired
    /\ srv' = [srv EXCEPT !.expired = TRUE]
    /\ UNCHANGED <<db, api, pipeline, run, cfg, mig, probe, txt, dns, http, txs, eval, tls>>

\* Shutdown returns: the listener has no handler in flight, or the context
\* of the request is done
StopReturn ==
    /\ srv.pc = "waiting"
    /\ LET l == srv.order[srv.next]
       IN /\ l \notin srv.busy \/ (srv.asked[l].deadline # NULL /\ srv.expired)
          /\ srv' = [srv EXCEPT !.pc = "stopping", !.next = @ + 1, !.returned = @ \cup {l}]
    /\ UNCHANGED <<db, api, pipeline, run, cfg, mig, probe, txt, dns, http, txs, eval, tls>>

\* runServer returns: the deferred cancel and database.Close run
CloseDatabase ==
    /\ srv.pc = "stopping"
    /\ srv.next > Len(srv.order)
    /\ srv' = [srv EXCEPT !.pc = "exited", !.dbOpen = FALSE]
    /\ UNCHANGED <<db, api, pipeline, run, cfg, mig, probe, txt, dns, http, txs, eval, tls>>

InitShutdown == InitServer(Configs)

NextShutdown ==
    HandlerBegin \/ HandlerEnd \/ Signal \/ StopCall \/ Expire \/ StopReturn \/ CloseDatabase

SpecShutdown == InitShutdown /\ [][NextShutdown]_vars

\* C21: every listener asked to stop is asked under the 30-second
\* deadline, and the database is closed only after the stop requests of all
\* listeners have returned
C21_StopsUnderDeadlineThenCloses ==
    /\ \A l \in DOMAIN srv.asked : srv.asked[l].deadline = ShutdownTimeout
    /\ ~srv.dbOpen =>
          \A i \in 1..Len(srv.order) :
             srv.order[i] \in DOMAIN srv.asked /\ srv.order[i] \in srv.returned

\* ----------------------------------------------------- name normalisation
\* Trailing dots of the names tried
MaxDots == 2

NameLabels == {"EXAMPLE", "Example", "example", "COM", "com", "_acme-challenge"}

\* Names of up to two labels with up to MaxDots trailing dots
Names ==
    [labels : {<<>>} \cup {<<a>> : a \in NameLabels}
                     \cup {<<a, b>> : a \in NameLabels, b \in NameLabels},
     dots : 0..MaxDots]

CallNormalizeName ==
    /\ \E n \in Names :
          eval' = [fn |-> "NormalizeName", arg |-> <<n>>, ret |-> <<NormalizeName(n)>>]
    /\ UNCHANGED <<db, api, pipeline, run, cfg, mig, probe, srv, txt, dns, http, txs, tls>>

SpecNames == Init /\ [][CallNormalizeName]_vars

\* C22: NormalizeName("EXAMPLE.com.") is "example.com", and normalising a
\* normalised name changes nothing
C22_NormalizeNameIdempotent ==
    /\ NormalizeName(FQDN(<<"EXAMPLE", "com">>)) = [labels |-> <<"example", "com">>, dots |-> 0]
    /\ eval.fn = "NormalizeName" => NormalizeName(eval.ret[1]) = eval.ret[1]

\* ------------------------------------------------ TXT store, call by call
\* Names given to the store: two spellings of the challenge name and the
\* name of another zone entry
StoreNames ==
    {FQDN(<<"_acme-challenge", "oast", "test">>),
     [labels |-> <<"_ACME-CHALLENGE", "OAST", "test">>, dots |-> 0],
     FQDN(<<"toka", "oast", "test">>)}

\* The orders in which a range over a Go map may deliver a value set
Orders(S) ==
    {q \in UNION {[1..n -> S] : n \in {Cardinality(S)}} :
        \A i, j \in 1..Cardinality(S) : i # j => q[i] # q[j]}

\* TXTStore.Add, logged; eval keeps a Get result only until the next write
CallAdd ==
    /\ Len(ser) < MaxWrites
    /\ \E n \in StoreNames, v \in ChallengeValues :
          /\ txt' = TXTAdd(txt, n, v)
          /\ ser' = Append(ser, [op |-> "Add", name |-> n, value |-> v])
    /\ eval' = NoEval
    /\ UNCHANGED <<db, api, pipeline, run, cfg, mig, probe, srv, tls, dns, http, mu, g>>

\* TXTStore.Remove, logged
CallRemove ==
    /\ Len(ser) < MaxWrites
    /\ \E n \in StoreNames, v \in ChallengeValues :
          /\ txt' = TXTRemove(txt, n, v)
          /\ ser' = Append(ser, [op |-> "Remove", name |-> n, value |-> v])
    /\ eval' = NoEval
    /\ UNCHANGED <<db, api, pipeline, run, cfg, mig, probe, srv, tls, dns, http, mu, g>>

\* TXTStore.Get: the slice built by ranging over the value map
CallGet ==
    /\ \E n \in StoreNames : \E result \in Orders(TXTGet(txt, n)) :
          eval' = [fn |-> "Get", arg |-> <<n>>, ret |-> <<result>>]
    /\ UNCHANGED <<db, api, pipeline, run, cfg, mig, probe, srv, tls, dns, http, txs, txt>>

InitTXTCalls == InitServer(Configs \ PlainMode)

NextTXTCalls == CallAdd \/ CallRemove \/ CallGet

SpecTXTCalls == InitTXTCalls /\ [][NextTXTCalls]_vars

\* The i-th write is on the normalized name of n and on v
Touches(i, n, v) == NormalizeName(ser[i].name) = NormalizeName(n) /\ ser[i].value = v

\* The values whose most recent write among the first k, on the normalized
\* name of n, is an Add
Live(k, n) ==
    {v \in ChallengeValues :
        \E i \in 1..k : /\ Touches(i, n, v)
                         /\ ser[i].op = "Add"
                         /\ \A j \in (i + 1)..k : ~Touches(j, n, v)}

\* C23: after any sequence of Add and Remove calls, Get(n) returns exactly
\* the values whose most recent Add or Remove on (normalized n, v) was an
\* Add, each once, and the store has a slot exactly for the normalized
\* names that hold a value
C23_GetReturnsLiveValuesOnce ==
    /\ \A n \in StoreNames : TXTGet(txt, n) = Live(Len(ser), n)
    /\ \A x \in DOMAIN txt : txt[x] # {}
    /\ DOMAIN txt = {NormalizeName(n) : n \in {m \in StoreNames : Live(Len(ser), m) # {}}}
    /\ eval.fn = "Get" =>
          /\ {eval.ret[1][i] : i \in 1..Len(eval.ret[1])} = Live(Len(ser), eval.arg[1])
          /\ \A i, j \in 1..Len(eval.ret[1]) : i # j => eval.ret[1][i] # eval.ret[1][j]

\* v1 was added twice under two spellings, v2 once, v1 removed: Get under
\* the other spelling returned v2 alone, and the slot is still there
C23_Witness ==
    /\ Len(ser) = 3
    /\ ser[1].op = "Add" /\ ser[1].value = "v1"
    /\ ser[2].op = "Add" /\ ser[2].value = "v2" /\ ser[2].name # ser[1].name
    /\ ser[3].op = "Remove" /\ ser[3].value = "v1"
    /\ \A i \in 1..3 : NormalizeName(ser[i].name) = NormalizeName(ChallengeName)
    /\ eval.fn = "Get" /\ eval.ret[1] = <<"v2">>
    /\ NormalizeName(eval.arg[1]) = NormalizeName(ChallengeName)

\* ------------------------------------------------------- startup window
\* ListenAndServe of listener l of probe p returns an error, which its
\* goroutine sends on the buffered error channel.  A call still blocked in
\* select receives it and returns the error; after the call returned nobody
\* reads the channel
ListenerFails_AlwaysReturned(p, l) ==
    [p EXCEPT !.failed[l] = IF p.elapsed THEN "after" ELSE "before",
              !.pc = "returned",
              !.result = "error " \o l]

ListenerFails(p, l) ==
    IF p.pc = "select"
    THEN [p EXCEPT !.failed[l] = IF p.elapsed THEN "after" ELSE "before",
                   !.pc = "returned",
                   !.result = "error " \o l]
    ELSE [p EXCEPT !.failed[l] = IF p.elapsed THEN "after" ELSE "before"]

\* The timer of time.After fires: a call still blocked in select returns nil
WindowElapses(p) ==
    IF p.pc = "select"
    THEN [p EXCEPT !.elapsed = TRUE, !.pc = "returned", !.result = "nil"]
    ELSE [p EXCEPT !.elapsed = TRUE]

Fail ==
    /\ \E k \in DOMAIN probe : \E l \in {x \in DOMAIN probe[k].failed : probe[k].failed[x] = ""} :
          probe' = [probe EXCEPT ![k] = ListenerFails(@, l)]
    /\ UNCHANGED <<db, api, pipeline, run, cfg, mig, srv, tls, txt, dns, http, txs, eval>>

Elapse ==
    /\ \E k \in {x \in DOMAIN probe : ~probe[x].elapsed} :
          probe' = [probe EXCEPT ![k] = WindowElapses(@)]
    /\ UNCHANGED <<db, api, pipeline, run, cfg, mig, srv, tls, txt, dns, http, txs, eval>>

NextProbe == Fail \/ Elapse

SpecProbe == Init /\ [][NextProbe]_vars

\* The call of probe p is accounted for by what was reported in its window
Surfaced(p) ==
    /\ p.pc = "select" => ~p.elapsed /\ \A l \in DOMAIN p.failed : p.failed[l] = ""
    /\ p.pc = "returned" =>
          /\ p.result # "nil" <=> \E l \in DOMAIN p.failed : p.failed[l] = "before"
          /\ p.result = "nil" <=> p.elapsed /\ \A l \in DOMAIN p.failed : p.failed[l] # "before"
          /\ \A l \in DOMAIN p.failed : p.result = "error " \o l => p.failed[l] = "before"

\* C24: DNS Start returns an error exactly when the UDP or the TCP listener
\* reported a failure before the probe window ended, returns nil once the
\* window elapsed without one, and a failure reported after the window
\* leaves the result as it is (likewise WaitForStartup)
C24_StartSurfacesFailuresInWindow ==
    \A k \in DOMAIN probe : Surfaced(probe[k])

\* Start returned nil when the window elapsed, and the TCP listener failed
\* afterwards
C24_Witness ==
    /\ probe.dns.pc = "returned" /\ probe.dns.result = "nil"
    /\ probe.dns.failed["tcp"] = "after"

\* ------------------------------------------------------- applyMigrations
\* File names as sequences of characters, without the ".sql" suffix that
\* every embedded file has: the repository's 001_init and 002_plugin_tables
\* (abbreviated), two names with unpadded versions, one without a number
MigrationNames ==
    { <<"0", "0", "1", "_", "i">>, <<"0", "0", "2", "_", "p">>,
      <<"3", "_", "a">>, <<"1", "0", "_", "b">>, <<"v", "4", "_", "c">> }

Digits == <<"0", "1", "2", "3", "4", "5", "6", "7", "8", "9">>

\* The byte of a character (ASCII): digits, then '_', then lower-case letters
Byte(c) ==
    IF \E i \in 1..10 : Digits[i] = c
    THEN 47 + (CHOOSE i \in 1..10 : Digits[i] = c)
    ELSE CASE c = "_" -> 95 [] c = "a" -> 97 [] c = "b" -> 98 [] c = "c" -> 99
           [] c = "i" -> 105 [] c = "p" -> 112 [] c = "v" -> 118

\* a < b as Go compares strings: byte by byte, a proper prefix first
RECURSIVE StringLess(_, _)
StringLess(a, b) ==
    IF b = <<>> THEN FALSE
    ELSE IF a = <<>> THEN TRUE
    ELSE IF Byte(Head(a)) # Byte(Head(b)) THEN Byte(Head(a)) < Byte(Head(b))
    ELSE StringLess(Tail(a), Tail(b))

RECURSIVE Atoi(_)
\* strconv.Atoi of an unsigned decimal: NULL for an empty or non-digit text
Atoi(text) ==
    IF text = <<>> THEN NULL
    ELSE IF ~\E i \in 1..10 : Digits[i] = text[Len(text)] THEN NULL
    ELSE IF Len(text) = 1 THEN Byte(text[1]) - 48
    ELSE IF Atoi(SubSeq(text, 1, Len(text) - 1)) = NULL THEN NULL
    ELSE 10 * Atoi(SubSeq(text, 1, Len(text) - 1)) + Byte(text[Len(text)]) - 48

\* strings.SplitN(filename, "_", 2)[0]
RECURSIVE BeforeUnderscore(_)
BeforeUnderscore(name) ==
    IF name = <<>> \/ Head(name) = "_" THEN <<>>
    ELSE <<Head(name)>> \o BeforeUnderscore(Tail(name))

parseVersion(filename) == Atoi(BeforeUnderscore(filename))

\* sort.Strings(migrations)
RECURSIVE SortStrings(_)
SortStrings(S) ==
    IF S = {} THEN <<>>
    ELSE LET least == CHOOSE a \in S : \A b \in S \ {a} : StringLess(a, b)
         IN  <<least>> \o SortStrings(S \ {least})

\* A build embeds migrations/*.sql; a later build embeds at least the same
EmbedMigrations ==
    /\ mig.pc \in {"none", "done", "failed"}
    /\ \E files \in SUBSET MigrationNames :
          /\ mig.files \subseteq files /\ files # mig.files
          /\ mig' = [mig EXCEPT !.pc = "built", !.files = files]
    /\ UNCHANGED <<db, api, pipeline, run, cfg, probe, srv, tls, txt, dns, http, txs, eval>>

\* Open: applyMigrations creates the ledger when missing, lists and sorts
OpenDatabase ==
    /\ mig.pc \in {"built", "done", "failed"}
    /\ mig' = [mig EXCEPT !.pc = "loop", !.pending = SortStrings(mig.files), !.ran = <<>>]
    /\ UNCHANGED <<db, api, pipeline, run, cfg, probe, srv, tls, txt, dns, http, txs, eval>>

\* One iteration of the loop over the sorted names; fault names the
\* statement of this iteration that fails, if any
applyMigration(m, fault) ==
    IF m.pending = <<>> THEN [m EXCEPT !.pc = "done"]
    ELSE LET name == Head(m.pending)
             version == parseVersion(name)
         IN  IF version = NULL \/ fault = "count" THEN [m EXCEPT !.pc = "failed"]
             ELSE IF version \in m.ledger THEN [m EXCEPT !.pending = Tail(@)]
             ELSE IF fault = "exec" THEN [m EXCEPT !.pc = "failed"]
             ELSE IF fault = "record"
                  THEN [m EXCEPT !.pc = "failed", !.ran = Append(@, name)]
             ELSE [m EXCEPT !.pending = Tail(@), !.ran = Append(@, name),
                            !.ledger = @ \cup {version}]

MigrationFaults == {"none", "count", "exec", "record"}

ApplyNext ==
    /\ mig.pc = "loop"
    /\ \E fault \in MigrationFaults : mig' = applyMigration(mig, fault)
    /\ UNCHANGED <<db, api, pipeline, run, cfg, probe, srv, tls, txt, dns, http, txs, eval>>

NextMigrate == EmbedMigrations \/ OpenDatabase \/ ApplyNext

SpecMigrate == Init /\ [][NextMigrate]_vars

\* What this startup executed is in ascending order of version
RanInVersionOrder ==
    \A i, j \in 1..Len(mig.ran) :
        i < j => parseVersion(mig.ran[i]) < parseVersion(mig.ran[j])

\* What this startup executed was not in the ledger when it was executed,
\* was executed once and, unless its INSERT failed, is in the ledger now
RanOnceAndRecorded ==
    /\ \A i, j \in 1..Len(mig.ran) : i # j => mig.ran[i] # mig.ran[j]
    /\ \A i \in 1..Len(mig.ran) :
          \/ parseVersion(mig.ran[i]) \in mig.ledger
          \/ mig.pc \in {"failed", "built"} /\ i = Len(mig.ran)

\* A startup that returned no error left every embedded file recorded
AllRecorded ==
    mig.pc = "done" => \A f \in mig.files : parseVersion(f) \in mig.ledger

\* A step never executes a file whose version the ledger holds
SkipsRecorded ==
    [][\A i \in 1..Len(mig'.ran) :
          i > Len(mig.ran) /\ mig.pc = "loop" => parseVersion(mig'.ran[i]) \notin mig.ledger]_vars

CreateStep ==
    api' # api /\ api'.route = "POST /v1/tokens" /\ api'.next

TokenTexts(d) == {t.token : t \in d.tokens}

\* C26 as stated: while a value is still unused, no creation request fails
\* for a collision (the handler would mint again)
C26_CollisionIsRetried ==
    [][CreateStep /\ TokenTexts(db) # TokenValues => api'.resp.status # 500]_vars

\* handleCreateToken on the store as it is, for every stored value minted
\* again: 500 and the store as it was
CollisionAnswers500 ==
    \A tok \in TokenTexts(db), key \in db.api_keys, fk \in ConnForeignKeys :
        LET h == handleCreateToken(db, key.id, "valid", tok, fk, "none")
        IN  h.resp.status = 500 /\ h.db = db

CreateOutcome ==
    \/ /\ api'.resp.status = 500
       /\ api'.resp.error = "failed to create token"
       /\ db' = db /\ db.tokens # {}
    \/ /\ api'.resp.status = 200
       /\ api'.resp.token \notin TokenTexts(db)
       /\ TokenTexts(db') = TokenTexts(db) \cup {api'.resp.token}
    \/ api'.resp.status \in {400, 413} /\ db' = db

\* C26 as the code has it: a minted value that is already stored makes
\* the request fail with 500 and leaves the store as it was, whatever values
\* are still unused; only a request that minted an unused value stores it
C26_CollisionFailsTheRequest ==
    [][CollisionAnswers500 /\ (CreateStep => CreateOutcome)]_vars

\* A creation request failed for a collision while a value was unused
C26_Witness ==
    /\ api.route = "POST /v1/tokens" /\ api.resp.status = 500
    /\ TokenTexts(db) # {} /\ TokenTexts(db) # TokenValues

\* --------------------------------------------------------- the IP track
\* The last call was Manage with these outcomes of the certificate library
Managed(publicIP, dnsOK, ipOK) ==
    eval.fn = "Manage" /\ eval.arg = <<publicIP, dnsOK, ipOK>>

\* C27 as stated: with the DNS track succeeding, nothing about the IP track
\* makes Manage return an error
C27_IPTrackNeverFatal ==
    \A ip \in {c.PublicIP : c \in ManagerConfigs}, ipOK \in BOOLEAN :
        Managed(ip, TRUE, ipOK) => eval.ret = <<FALSE>>

\* C27 as the code has it: Manage returns an error exactly when the DNS
\* track failed or the public IP does not parse; a failed issuance of the IP
\* certificate and an IPv6 address are not errors, and in every case the DNS
\* config exists, since the DNS track is managed before the IP track starts
C27_IPIssuanceFailureOnlyLogged ==
    \A ip \in {c.PublicIP : c \in ManagerConfigs}, dnsOK \in BOOLEAN, ipOK \in BOOLEAN :
        Managed(ip, dnsOK, ipOK) =>
            /\ manager.dnsConfig
            /\ eval.ret = <<~dnsOK \/ (ip # "" /\ ParseIP(ip) = "nil")>>
            /\ eval.ret = <<FALSE>> => https.TLSConfig # "unset"
            /\ manager.ipConfig <=> dnsOK /\ ip # "" /\ ParseIP(ip) = "v4"

\* Manage has returned nil although the IP certificate could not be obtained
C27_Witness ==
    /\ Managed("192.0.2.1", TRUE, FALSE)
    /\ eval.ret = <<FALSE>> /\ https.TLSConfig # "unset"

\* ------------------------------------------------- ACME challenge paths
\* The step is ServeHTTP for a request under /.well-known/acme-challenge/
ChallengePathStep ==
    /\ http.state = "idle" /\ http' # http
    /\ Len(http'.path) >= 3
    /\ http'.path[1] = ".well-known" /\ http'.path[2] = "acme-challenge"

\* The responder wrote the reply and ServeHTTP returned
StoppedAtResponder ==
    /\ http'.state = "idle" /\ http'.status = 200 /\ http'.body = "challenge"
    /\ run' = run /\ db' = db

\* ServeHTTP went on as for any other path
ServedAsOrdinaryRequest ==
    /\ db' = db
    /\ IF ~isValidHost(cfg, http'.host)
       THEN http'.state = "idle" /\ http'.status = 404 /\ run' = run
       ELSE IF ExtractToken(http'.host, http'.path, Domain) = ""
       THEN http'.state = "idle" /\ http'.status = 200 /\ http'.body = "ok" /\ run' = run
       ELSE /\ http'.state = "pipeline"
            /\ run'.caller = "http"
            /\ run'.draft.TokenValue = ExtractToken(http'.host, http'.path, Domain)

\* C28 as stated: every request under the challenge path ends at the
\* responder
C28_ChallengePathStopsAtResponder ==
    [][ChallengePathStep => StoppedAtResponder]_vars

\* C28 as the code has it: a request under the challenge path ends at the
\* responder when the responder answers it, which it does only for the
\* public IP as host; a request the responder declines is host-validated,
\* token-extracted and, with a token, submitted to the pipeline
C28_ChallengePathStopsWhenAnswered ==
    [][ChallengePathStep =>
          \/ StoppedAtResponder /\ isValidHost(cfg, http'.host) /\ cfg.PublicIP # ""
          \/ ServedAsOrdinaryRequest]_vars

\* A request under the challenge path on a token's host is in the pipeline
C28_Witness ==
    /\ http.state = "pipeline" /\ run.draft.TokenValue = "toka"
    /\ http.host = Host(<<"toka", "oast", "test">>)
    /\ http.path = <<".well-known", "acme-challenge", "abc">>

\* ------------------------------------------- deletion during a capture
\* The storage block of ProcessHTTP / ProcessDNS one SQL statement at a
\* time: INSERT INTO interactions, INSERT INTO http_/dns_interactions, the
\* transaction of SaveAttributes
StoreStatement(p, r, d, fk) ==
    LET after == IF DOMAIN r.draft.Attributes # {} THEN "save_attributes"
                 ELSE PhaseFrom(p, r.kind, "poststore")
    IN  CASE r.pc = "store" ->
               IF r.draft.Drop \/ ~p.store
               THEN [db |-> d, run |-> [r EXCEPT !.pc = PhaseFrom(p, r.kind, "poststore"), !.idx = 1]]
               ELSE IF r.draft.TokenID = 0
               THEN [db |-> d, run |-> [r EXCEPT !.InteractionID = 0, !.pc = after, !.idx = 1]]
               ELSE LET b == CreateInteraction(d, r.draft.TokenID, r.kind, fk, FALSE)
                    IN  IF b.err
                        THEN [db |-> d, run |-> [r EXCEPT !.err = TRUE, !.pc = "done"]]
                        ELSE [db |-> b.db,
                              run |-> [r EXCEPT !.InteractionID = b.id, !.idx = 1,
                                                !.pc = IF r.draft.Detail THEN "insert_detail"
                                                       ELSE after]]
          [] r.pc = "insert_detail" ->
               LET x == IF r.kind = "http"
                        THEN CreateHTTPInteraction(d, r.InteractionID, fk, FALSE)
                        ELSE CreateDNSInteraction(d, r.InteractionID, fk, FALSE)
               IN  IF x.err
                   THEN [db |-> d, run |-> [r EXCEPT !.InteractionID = 0, !.err = TRUE,
                                                     !.pc = "done"]]
                   ELSE [db |-> x.db, run |-> [r EXCEPT !.pc = after]]
          [] r.pc = "save_attributes" ->
               LET x == SaveAttributes(d, r.InteractionID, r.draft.Attributes, fk, FALSE)
               IN  [db |-> x.db,
                    run |-> [r EXCEPT !.warns = IF x.err THEN @ + 1 ELSE @,
                                      !.pc = PhaseFrom(p, r.kind, "poststore")]]

\* The next statement of the storage block, on some connection of the pool
StepStatement ==
    /\ run.pc \in {"store", "insert_detail", "save_attributes"}
    /\ \E fk \in ConnForeignKeys :
          LET x == StoreStatement(pipeline, run, db, fk)
          IN  db' = x.db /\ run' = x.run
    /\ UNCHANGED <<api, pipeline, cfg, mig, probe, srv, tls, txt, dns, http, txs, eval>>

\* DELETE /v1/tokens/{token} by the owner, at any point of a capture
DeleteDuringCapture ==
    /\ APIRequest({"DELETE /v1/tokens/{token}"}, {HdrKey1}, NoFaults)
    /\ UNCHANGED <<pipeline, run, cfg, mig, probe, srv, tls, txt, dns, http, txs, eval>>

InitRace == InitHTTP

NextRace ==
    \/ ProcessHTTP
    \/ ProcessDNS
    \/ StepPreStore(NoFaults)
    \/ StepStatement
    \/ StepResponse
    \/ DeleteDuringCapture

SpecRace == InitRace /\ [][NextRace]_vars

\* Rows that reference a token no longer stored: interactions by token_id,
\* detail and attribute rows through their interaction
RowsOfDeletedTokens(d) ==
    LET live == {i.id : i \in {x \in d.interactions : \E t \in d.tokens : t.id = x.token_id}}
    IN  {<<"interactions", i.id>> : i \in {x \in d.interactions : x.id \notin live}}
        \cup {<<"http_interactions", h.interaction_id>> :
                  h \in {x \in d.http_interactions : x.interaction_id \notin live}}
        \cup {<<"dns_interactions", h.interaction_id>> :
                  h \in {x \in d.dns_interactions : x.interaction_id \notin live}}
        \cup {<<"interaction_attributes", a.interaction_id>> :
                  a \in {x \in d.interaction_attributes :
                            x.interaction_id # 0 /\ x.interaction_id \notin live}}

\* C29: once a deletion of the token and a capture for it have both
\* completed, in whatever order their statements ran, no interaction, detail
\* or attribute row references the deleted token
C29_NoRowOfDeletedTokenAfterRace ==
    /\ run.pc \in {"idle", "done"}
    /\ api.route = "DELETE /v1/tokens/{token}" /\ api.resp.deleted
    => RowsOfDeletedTokens(db) = {}

\* ------------------------------------------- the id given to SaveAttributes
\* The run called the store's SaveAttributes; the id it passed is the one
\* CreateInteraction returned, kept in InteractionID
CalledSaveAttributes ==
    \E i \in 1..Len(run.calls) :
        run.calls[i].plugin = "store" /\ run.calls[i].phase = "SaveAttributes"

\* C30: a run calls SaveAttributes only with the id of an interaction row
\* that its CreateInteraction stored, never with 0
C30_SaveAttributesOnlyForStoredInteraction ==
    CalledSaveAttributes =>
        /\ run.InteractionID # 0
        /\ \E i \in db.interactions : i.id = run.InteractionID

====
